---- MODULE Spec2Model ----
(***************************************************************************)
(* Model of analysis::EventInfoBase (h-tautau/Analysis/src/EventInfo.cpp): *)
(* the signal-jet selection made at construction, the lazily populated,    *)
(* mutex-guarded cache of derived objects, and the systematic shift that   *)
(* clones an event view with corrected jets and missing energy.            *)
(*                                                                         *)
(* Momenta are integers: a jet momentum is [pt, eta] with eta in tenths,   *)
(* lepton and MET momenta are a single transverse component.               *)
(***************************************************************************)
EXTENDS Integers, Sequences, FiniteSets, TLC

(***************************************************************************)
(* Bounds of the exploration.                                              *)
(***************************************************************************)
NThreads == 2
MaxInst == 2
MaxUpdates == 3
NProducers == 2
MaxTupleCalls == 5

Threads == 1..NThreads
Inst == 1..MaxInst
Producers == 1..NProducers

(***************************************************************************)
(* Program constants.                                                      *)
(***************************************************************************)
\* ntuple::UndefinedJetPair(): both indices are the largest size_t; any value
\* above every jet count behaves the same in the comparisons of the code.
UndefinedJetIndex == 255
UndefinedJetPair == [first |-> UndefinedJetIndex, second |-> UndefinedJetIndex]

\* BTagger::PtCut / EtaCut and cuts::hh_bbtautau_2017::jetID (eta in tenths).
bjet_pt_cut == 20
bjet_eta_cut == 24
vbf_pt_cut == 30
vbf_eta_cut == 47
\* BTagger medium working point on the tag score.
MediumWP == 5

\* an empty optional slot; a filled slot is the one-element sequence << value >>
Empty == << >>

(***************************************************************************)
(* Sequence helpers.                                                       *)
(***************************************************************************)
\* zero-based element access, as std::vector::at on an index known in range
At(s, n) == s[n + 1]

InRange(s, n) == n >= 0 /\ n < Len(s)

Abs(x) == IF x < 0 THEN -x ELSE x

(***************************************************************************)
(* Event records (ntuple::Event).  Jets are indexed from 0 as in the code; *)
(* the sequences below hold jet n at position n+1.                         *)
(***************************************************************************)
Jet(pt, eta) == [pt |-> pt, eta |-> eta]

\* no jet passes the b-tag thresholds twice: first b-jet only, no pair
EventOneJet ==
    [ period |-> "Run2017",
      jets_p4 |-> << Jet(40, 10), Jet(18, 5) >>,
      jets_pu_id |-> << 7, 7 >>,
      jets_deepcsv |-> << 8, 6 >>,
      jets_deepflavour |-> << 8, 6 >>,
      jets_resolution |-> << 1, 2 >>,
      other_jets_p4 |-> << Jet(12, 30) >>,
      fatJets_m |-> << >>,
      fatJets_subJets |-> << >>,
      pfMET_p4 |-> 30,
      lep_p4 |-> << 25, 35 >>,
      first_daughter_indexes |-> << 0 >>,
      second_daughter_indexes |-> << 1 >>,
      SVfit_p4 |-> << >>,
      kinFit_jetPairId |-> << >>,
      kinFit_convergence |-> << >>,
      kinFit_chi2 |-> << >>,
      kinFit_m |-> << >> ]

\* two b-tagged jets, a precomputed kinematic fit for the pair (0,1)
EventPairHit ==
    [ period |-> "Run2018",
      jets_p4 |-> << Jet(50, 10), Jet(45, -12) >>,
      jets_pu_id |-> << 7, 6 >>,
      jets_deepcsv |-> << 9, 7 >>,
      jets_deepflavour |-> << 7, 9 >>,
      jets_resolution |-> << 1, 2 >>,
      other_jets_p4 |-> << Jet(10, 20) >>,
      fatJets_m |-> << 90 >>,
      fatJets_subJets |-> << << Jet(40, 10), Jet(30, -12) >> >>,
      pfMET_p4 |-> 20,
      lep_p4 |-> << 30, 40 >>,
      first_daughter_indexes |-> << 0 >>,
      second_daughter_indexes |-> << 1 >>,
      SVfit_p4 |-> << 75 >>,
      kinFit_jetPairId |-> << 5, 0, 0 >>,
      kinFit_convergence |-> << 0, 1, 2 >>,
      kinFit_chi2 |-> << 9, 3, 4 >>,
      kinFit_m |-> << 100, 300, 400 >> ]

\* two b-tagged jets and two forward jets: b pair and VBF pair, no fit stored
EventPairVBF ==
    [ period |-> "Run2018",
      jets_p4 |-> << Jet(60, 5), Jet(35, 40), Jet(50, -8), Jet(40, -35) >>,
      jets_pu_id |-> << 7, 7, 7, 7 >>,
      jets_deepcsv |-> << 9, 1, 8, 2 >>,
      jets_deepflavour |-> << 9, 1, 8, 2 >>,
      jets_resolution |-> << 1, 1, 2, 1 >>,
      other_jets_p4 |-> << >>,
      fatJets_m |-> << 120, 40 >>,
      fatJets_subJets |-> << << Jet(50, 5), Jet(40, -8) >>, << Jet(20, 0) >> >>,
      pfMET_p4 |-> 25,
      lep_p4 |-> << 30, 20 >>,
      first_daughter_indexes |-> << 1 >>,
      second_daughter_indexes |-> << 0 >>,
      SVfit_p4 |-> << >>,
      kinFit_jetPairId |-> << 7 >>,
      kinFit_convergence |-> << 1 >>,
      kinFit_chi2 |-> << 2 >>,
      kinFit_m |-> << 250 >> ]

Events == << EventOneJet, EventPairHit, EventPairVBF >>

\* two b-tagged jets and a jet between the two eta windows of GetHT
EventForward ==
    [ EventPairVBF EXCEPT
        !.jets_p4 = << Jet(60, 5), Jet(50, -8), Jet(30, 48) >>,
        !.jets_pu_id = << 7, 7, 7 >>,
        !.jets_deepcsv = << 9, 8, 1 >>,
        !.jets_deepflavour = << 9, 8, 1 >>,
        !.jets_resolution = << 1, 1, 1 >> ]

(***************************************************************************)
(* Event records for the jet selections: every jet list of at most         *)
(* MaxSelJets jets drawn from JetKinds.                                     *)
(***************************************************************************)
MaxSelJets == 5

\* the jets of the selection inputs: momentum, pile-up id bits, tag scores
JetKinds ==
    << [p4 |-> Jet(60, 5), pu_id |-> 7, deepcsv |-> 9, deepflavour |-> 9],
       [p4 |-> Jet(50, -8), pu_id |-> 7, deepcsv |-> 3, deepflavour |-> 7],
       [p4 |-> Jet(40, 40), pu_id |-> 7, deepcsv |-> 1, deepflavour |-> 1],
       [p4 |-> Jet(15, 0), pu_id |-> 7, deepcsv |-> 9, deepflavour |-> 9],
       [p4 |-> Jet(60, 5), pu_id |-> 4, deepcsv |-> 9, deepflavour |-> 9],
       [p4 |-> Jet(40, 28), pu_id |-> 7, deepcsv |-> 6, deepflavour |-> 6] >>

\* the number of jet lists of at most n jets
SelCount(n) == ((Len(JetKinds) ^ (n + 1)) - 1) \div (Len(JetKinds) - 1)

\* the jet list numbered c: 0 is the empty list, then the lists of one jet,
\* of two jets, ...
SelJets(c) ==
    LET n == CHOOSE m \in 0..MaxSelJets : (m = 0 \/ SelCount(m - 1) <= c) /\ c < SelCount(m)
        r == IF n = 0 THEN 0 ELSE c - SelCount(n - 1)
    IN [k \in 1..n |-> JetKinds[((r \div (Len(JetKinds) ^ (k - 1))) % Len(JetKinds)) + 1]]

\* the event record holding the jet list numbered c
SelEvent(c) ==
    LET js == SelJets(c)
    IN [ EventPairVBF EXCEPT
           !.period = "Run2017",
           !.jets_p4 = [k \in 1..Len(js) |-> js[k].p4],
           !.jets_pu_id = [k \in 1..Len(js) |-> js[k].pu_id],
           !.jets_deepcsv = [k \in 1..Len(js) |-> js[k].deepcsv],
           !.jets_deepflavour = [k \in 1..Len(js) |-> js[k].deepflavour],
           !.jets_resolution = [k \in 1..Len(js) |-> 1] ]

\* the numbers of the jet lists of at most MaxSelJets jets
SelCodes == 0..(SelCount(MaxSelJets) - 1)

(***************************************************************************)
(* Event records for the fat-jet match: every fat-jet list of at most      *)
(* MaxFatJets fat jets drawn from FatKinds, on a record with a b-jet pair  *)
(* (jets 0 and 2 of EventPairVBF, at eta 0.5 and -0.8) or without one.     *)
(***************************************************************************)
MaxFatJets == 2

\* the fat jets of the inputs: soft-drop mass and subjets, in record order
FatKinds ==
    << [m |-> 120, subJets |-> << Jet(50, 5), Jet(40, -8) >>],
       [m |-> 30, subJets |-> << Jet(40, 6), Jet(50, -7) >>],
       [m |-> 29, subJets |-> << Jet(50, 5), Jet(40, -8) >>],
       [m |-> 120, subJets |-> << Jet(50, 5) >>],
       [m |-> 120, subJets |-> << Jet(50, 5), Jet(40, 6) >>],
       [m |-> 120, subJets |-> << Jet(30, -8), Jet(50, 5), Jet(40, 30) >>],
       [m |-> 120, subJets |-> << Jet(50, 5), Jet(40, 30), Jet(40, -8) >>] >>

\* the number of fat-jet lists of at most n fat jets
FatCount(n) == ((Len(FatKinds) ^ (n + 1)) - 1) \div (Len(FatKinds) - 1)

\* the fat-jet list numbered c
FatJetsOf(c) ==
    LET n == CHOOSE m \in 0..MaxFatJets : (m = 0 \/ FatCount(m - 1) <= c) /\ c < FatCount(m)
        r == IF n = 0 THEN 0 ELSE c - FatCount(n - 1)
    IN [k \in 1..n |-> FatKinds[((r \div (Len(FatKinds) ^ (k - 1))) % Len(FatKinds)) + 1]]

\* the record base holding the fat-jet list numbered c
FatEvent(base, c) ==
    LET fs == FatJetsOf(c)
    IN [ base EXCEPT
           !.fatJets_m = [k \in 1..Len(fs) |-> fs[k].m],
           !.fatJets_subJets = [k \in 1..Len(fs) |-> fs[k].subJets] ]

FatCodes == 0..(FatCount(MaxFatJets) - 1)

(***************************************************************************)
(* Jet ranking and the signal-jet selection made at construction.          *)
(***************************************************************************)
\* PassEcalNoiceVetoJets: only Run2017 vetoes soft jets in the noisy window
noise_max_pt == 50
noise_eta_low == 26
noise_eta_high == 31

PassEcalNoiceVetoJets(p4, period, pu_id) ==
    \/ period # "Run2017"
    \/ ~(p4.pt < noise_max_pt /\ Abs(p4.eta) > noise_eta_low /\ Abs(p4.eta) < noise_eta_high)

\* (pu_id & 2) != 0
PuBit2(pu_id) == (pu_id \div 2) % 2 = 1

\* BTagger::BTag: the score of the tagger the ordering policy names
BTag(event, jet_ordering, n) ==
    IF jet_ordering = "DeepFlavour" THEN At(event.jets_deepflavour, n)
                                    ELSE At(event.jets_deepcsv, n)

\* BTagger::Pass at the medium working point
BTagPass(event, jet_ordering, n) == BTag(event, jet_ordering, n) > MediumWP

\* jet_ordering::CompareJets once both jets passed the hard cut: higher tag
\* first, ties by higher pt
CompareJets(j1, j2) ==
    IF j1.tag # j2.tag THEN j1.tag > j2.tag ELSE j1.p4.pt > j2.p4.pt

RECURSIVE InsertJet(_, _)
InsertJet(j, s) ==
    IF s = <<>> THEN << j >>
    ELSE IF CompareJets(j, Head(s)) THEN << j >> \o s
    ELSE << Head(s) >> \o InsertJet(j, Tail(s))

RECURSIVE SortJets(_)
SortJets(s) ==
    IF s = <<>> THEN <<>>
    ELSE InsertJet(s[Len(s)], SortJets(SubSeq(s, 1, Len(s) - 1)))

\* jet_ordering::OrderJets with apply_hard_cut = true
OrderJets(jet_info_vector, pt_cut, eta_cut) ==
    SortJets(SelectSeq(jet_info_vector,
                       LAMBDA j : j.p4.pt > pt_cut /\ Abs(j.p4.eta) < eta_cut))

\* a test that never recognises a selected b-jet
isSelectedBjet_Never(sel, n) == FALSE

isSelectedBjet(sel, n) == sel.selectedBjetPair.first = n \/ sel.selectedBjetPair.second = n

\* a test that never recognises a selected VBF jet
isSelectedVBFjet_Never(sel, n) == FALSE

isSelectedVBFjet(sel, n) == sel.selectedVBFjetPair.first = n \/ sel.selectedVBFjetPair.second = n

\* a pair test that looks at the first index only
HasBjetPairN_FirstOnly(sel, njets) == sel.selectedBjetPair.first < njets

HasBjetPairN(sel, njets) ==
    sel.selectedBjetPair.first < njets /\ sel.selectedBjetPair.second < njets

HasVBFPairN(sel, njets) ==
    sel.selectedVBFjetPair.first < njets /\ sel.selectedVBFjetPair.second < njets

\* the lambda CreateJetInfo of SelectSignalJets, for the selection so far
RECURSIVE CreateJetInfoFrom(_, _, _, _, _)
CreateJetInfoFrom(event, jet_ordering, sel, useBTag, n) ==
    IF n >= Len(event.jets_p4) THEN <<>>
    ELSE LET p4 == At(event.jets_p4, n)
             pu == At(event.jets_pu_id, n)
             skip == \/ isSelectedBjet(sel, n)
                     \/ isSelectedVBFjet(sel, n)
                     \/ ~PassEcalNoiceVetoJets(p4, event.period, pu)
                     \/ ~PuBit2(pu)
             tag == IF useBTag THEN BTag(event, jet_ordering, n) ELSE p4.pt
             rest == CreateJetInfoFrom(event, jet_ordering, sel, useBTag, n + 1)
         IN IF skip THEN rest ELSE << [p4 |-> p4, index |-> n, tag |-> tag] >> \o rest

CreateJetInfo(event, jet_ordering, sel, useBTag) ==
    CreateJetInfoFrom(event, jet_ordering, sel, useBTag, 0)

\* (p4_1 + p4_2).M(), up to a monotone map: 2 pt1 pt2 (cosh(d eta) - cos(d phi))
\* grows with the product of the pts and the eta separation
PairMass(p1, p2) == p1.pt * p2.pt * (p1.eta - p2.eta) * (p1.eta - p2.eta)

\* a scan that lets a later pair of equal mass replace the pair found first
RECURSIVE VBFScan_LastMax(_, _, _, _)
VBFScan_LastMax(v, n, h, acc) ==
    IF n > Len(v) THEN acc
    ELSE IF h > Len(v) THEN VBFScan_LastMax(v, n + 1, n + 2, acc)
    ELSE LET m == PairMass(v[n].p4, v[h].p4)
         IN VBFScan_LastMax(v, n, h + 1,
                            IF m >= acc.max_mjj
                            THEN [max_mjj |-> m,
                                  pair |-> [first |-> v[n].index, second |-> v[h].index]]
                            ELSE acc)

\* the double loop over vbf_jets_ordered: state is [max, pair]; -1 stands for
\* minus infinity (every mass is >= 0)
RECURSIVE VBFScan(_, _, _, _)
VBFScan(v, n, h, acc) ==
    IF n > Len(v) THEN acc
    ELSE IF h > Len(v) THEN VBFScan(v, n + 1, n + 2, acc)
    ELSE LET m == PairMass(v[n].p4, v[h].p4)
         IN VBFScan(v, n, h + 1,
                    IF m > acc.max_mjj
                    THEN [max_mjj |-> m,
                          pair |-> [first |-> v[n].index, second |-> v[h].index]]
                    ELSE acc)

\* the first empty selection of SelectSignalJets
NoSelection ==
    [selectedBjetPair |-> UndefinedJetPair, selectedVBFjetPair |-> UndefinedJetPair,
     n_bjets |-> 0]

\* a ranked b-tag list cut at the VBF thresholds
BjetsOrdered_VBFCuts(event, jet_ordering) ==
    OrderJets(CreateJetInfo(event, jet_ordering, NoSelection, TRUE),
              vbf_pt_cut, vbf_eta_cut)

\* bjets_ordered: the candidates ranked by tag under the b-tag thresholds
BjetsOrdered(event, jet_ordering) ==
    OrderJets(CreateJetInfo(event, jet_ordering, NoSelection, TRUE),
              bjet_pt_cut, bjet_eta_cut)

\* a first stage that never takes the second entry of bjets_ordered
AfterBjets_FirstOnly(event, jet_ordering) ==
    LET bjets_ordered == BjetsOrdered(event, jet_ordering)
        s1 == [NoSelection EXCEPT !.n_bjets = Len(bjets_ordered)]
    IN IF Len(bjets_ordered) >= 1
       THEN [s1 EXCEPT !.selectedBjetPair.first = bjets_ordered[1].index]
       ELSE s1

\* the selection once the b-jets of bjets_ordered are taken: the first one
\* always, the second one only if it passes the medium working point
\* a selection that counts only the candidates above the medium working point
AfterBjets_CountMedium(event, jet_ordering) ==
    LET bjets_ordered == BjetsOrdered(event, jet_ordering)
        s1 == [NoSelection EXCEPT !.n_bjets =
                 Cardinality({k \in 1..Len(bjets_ordered) :
                                BTagPass(event, jet_ordering, bjets_ordered[k].index)})]
        s2 == IF Len(bjets_ordered) >= 1
              THEN [s1 EXCEPT !.selectedBjetPair.first = bjets_ordered[1].index]
              ELSE s1
    IN IF Len(bjets_ordered) >= 2 /\ BTagPass(event, jet_ordering, bjets_ordered[2].index)
       THEN [s2 EXCEPT !.selectedBjetPair.second = bjets_ordered[2].index]
       ELSE s2

AfterBjets(event, jet_ordering) ==
    LET bjets_ordered == BjetsOrdered(event, jet_ordering)
        s1 == [NoSelection EXCEPT !.n_bjets = Len(bjets_ordered)]
        s2 == IF Len(bjets_ordered) >= 1
              THEN [s1 EXCEPT !.selectedBjetPair.first = bjets_ordered[1].index]
              ELSE s1
    IN IF Len(bjets_ordered) >= 2 /\ BTagPass(event, jet_ordering, bjets_ordered[2].index)
       THEN [s2 EXCEPT !.selectedBjetPair.second = bjets_ordered[2].index]
       ELSE s2

\* vbf_jets_ordered: the remaining candidates ranked by pt under the VBF
\* thresholds
VbfJetsOrdered(event, jet_ordering) ==
    OrderJets(CreateJetInfo(event, jet_ordering, AfterBjets(event, jet_ordering), FALSE),
              vbf_pt_cut, vbf_eta_cut)

\* the selection once the VBF pair is scanned
AfterVBFScan(event, jet_ordering) ==
    LET s3 == AfterBjets(event, jet_ordering)
        scan == VBFScan(VbfJetsOrdered(event, jet_ordering), 1, 2,
                        [max_mjj |-> -1, pair |-> s3.selectedVBFjetPair])
    IN [s3 EXCEPT !.selectedVBFjetPair = scan.pair]

\* a selection that stops after the VBF scan
SelectSignalJets_NoFallback(event, jet_ordering) == AfterVBFScan(event, jet_ordering)

\* a fallback that keeps the VBF pair when it reuses the second entry of
\* bjets_ordered
SelectSignalJets_KeepVBF(event, jet_ordering) ==
    LET bjets_ordered == BjetsOrdered(event, jet_ordering)
        s4 == AfterVBFScan(event, jet_ordering)
        new_bjets_ordered == OrderJets(CreateJetInfo(event, jet_ordering, s4, TRUE),
                                       bjet_pt_cut, bjet_eta_cut)
    IN IF HasBjetPairN(s4, Len(event.jets_p4)) THEN s4
       ELSE IF Len(new_bjets_ordered) >= 1
            THEN [s4 EXCEPT !.selectedBjetPair.second = new_bjets_ordered[1].index]
            ELSE IF Len(bjets_ordered) >= 2
                 THEN [s4 EXCEPT !.selectedBjetPair.second = bjets_ordered[2].index]
                 ELSE [s4 EXCEPT !.selectedVBFjetPair = UndefinedJetPair]

SelectSignalJets(event, jet_ordering) ==
    LET bjets_ordered == BjetsOrdered(event, jet_ordering)
        s4 == AfterVBFScan(event, jet_ordering)
        new_bjets_ordered == OrderJets(CreateJetInfo(event, jet_ordering, s4, TRUE),
                                       bjet_pt_cut, bjet_eta_cut)
    IN IF HasBjetPairN(s4, Len(event.jets_p4)) THEN s4
       ELSE IF Len(new_bjets_ordered) >= 1
            THEN [s4 EXCEPT !.selectedBjetPair.second = new_bjets_ordered[1].index]
            ELSE LET s5 == [s4 EXCEPT !.selectedVBFjetPair = UndefinedJetPair]
                 IN IF Len(bjets_ordered) >= 2
                    THEN [s5 EXCEPT !.selectedBjetPair.second = bjets_ordered[2].index]
                    ELSE s5

\* ntuple::CombinationPairToIndex: the canonical key of an ordered jet pair
CombinationPairToIndex(pair, n_jets) ==
    pair.first * (n_jets - 1) + pair.second - (IF pair.first < pair.second THEN 1 ELSE 0)

(***************************************************************************)
(* External collaborators, as the pure functions the code uses them as.    *)
(***************************************************************************)
\* TMath::Prob(chi2, 2), in percent: 0 for a negative chi2, decreasing in chi2
Prob(chi2) == IF chi2 < 0 THEN 0 ELSE 100 \div (1 + chi2)

\* kin_fit::FitProducer::Fit(leg1, leg2, b1, b2, met, res1, res2)
Fit(l1, l2, b1, b2, met, res1, res2) ==
    [ convergence |-> 1,
      chi2 |-> (res1 + 2 * res2) % 7,
      mass |-> l1 + l2 + b1 + b2 + met ]

\* a default-constructed kin_fit::FitResults
DefaultFitResults == [convergence |-> -1, chi2 |-> -1, probability |-> -1, mass |-> -1]

\* Calculate_MT2(leg1, leg2, b1, b2, met): distinct weights keep the arguments apart
Calculate_MT2(l1, l2, b1, b2, met) == l1 + 2 * l2 + 3 * b1 + 5 * b2 + 7 * met

UncSources == {"Total"}
UncScales == {"Up", "Down"}

\* the size of the jet-energy variation of a source, signed by the scale
ShiftDelta(source, scale) == IF scale = "Up" THEN 3 ELSE -3

\* jec::JECUncertaintiesWrapper::ApplyShift(jets, source, scale, other_jets, met):
\* every jet is rescaled, the missing energy absorbs the change of all jets
JecApplyShift(jets_in, source, scale, other_jets_p4, met_p4) ==
    LET d == ShiftDelta(source, scale)
    IN [ jets |-> [k \in 1..Len(jets_in) |-> [jets_in[k] EXCEPT !.p4.pt = @ + d]],
         met_p4 |-> met_p4 - d * (Len(jets_in) + Len(other_jets_p4)) ]

(***************************************************************************)
(* State.                                                                  *)
(***************************************************************************)
VARIABLES
    inst,       \* the EventInfoBase objects: immutable members and cache slots
    ninst,      \* number of objects constructed so far (objects 1..ninst exist)
    owner,      \* mutex -> the thread holding it, or 0
    th,         \* each thread's position inside the call it is executing
    ncomp,      \* object -> slot -> how many times the slot's computation ran
    filler,     \* object -> the thread that last computed one of its slots, or 0
    corrCalls,  \* the invocations of the external corrector, in order
    fitCalls,   \* the invocations of the kinematic-fit solver, in order
    nupd,       \* calls so far that filled or replaced a cache slot
    tuple_counter,   \* TupleStore::tuple_counter
    eventTuple_ptr,  \* *TupleStore::eventTuple_ptr: the tuple it owns, or NoTuple
    storeMutex,      \* TupleStore::mutex -> the producer holding it, or 0
    producer,        \* each producer's position inside its call of TupleStore
    tuples,          \* the EventTuple objects created so far, in order of creation
    tupleCalls       \* the calls of TupleStore completed so far, in order

\* the state of the EventInfoBase objects and of their callers
eventInfo == << inst, ninst, owner, th, ncomp, filler, corrCalls, fitCalls, nupd >>

\* the state of TupleStore and of the producers
tupleStore == << tuple_counter, eventTuple_ptr, storeMutex, producer, tuples, tupleCalls >>

vars == << inst, ninst, owner, th, ncomp, filler, corrCalls, fitCalls, nupd,
           tuple_counter, eventTuple_ptr, storeMutex, producer, tuples, tupleCalls >>

Slots == {"leg1", "leg2", "jets", "fatJets", "met", "higgs_bb", "kinfit_results", "mt2",
          "mva_score"}

MemoSlots == Slots \ {"mva_score"}

\* the place of an object that was not constructed yet
NoInstance == [event |-> 0]

\* the cache slots of an object, as a function on Slots
Cache(I) == [f \in Slots |-> I[f]]

\* the event record an object refers to
Ev(I) == I.event

GetNJets(I) == Len(Ev(I).jets_p4)

GetNFatJets(I) == Len(Ev(I).fatJets_m)

HasBjetPair(I) == HasBjetPairN(I.selected_signal_jets, GetNJets(I))

HasVBFjetPair(I) == HasVBFPairN(I.selected_signal_jets, GetNJets(I))

\* EventInfoBase::EventInfoBase: members set by the constructor, cache empty,
\* a mutex of its own
Construct(event, jet_ordering, summaryInfo, mutex) ==
    [ event |-> event,
      summaryInfo |-> summaryInfo,
      selected_htt_index |-> 0,
      selected_signal_jets |-> SelectSignalJets(event, jet_ordering),
      period |-> event.period,
      jet_ordering |-> jet_ordering,
      mutex |-> mutex,
      leg1 |-> Empty, leg2 |-> Empty, jets |-> Empty, fatJets |-> Empty, met |-> Empty,
      higgs_bb |-> Empty, kinfit_results |-> Empty, mt2 |-> Empty, mva_score |-> Empty ]

\* a copy that keeps the cache slots of the object it is made from
CopyConstruct_Memberwise(I, mutex) == [I EXCEPT !.mutex = mutex]

\* the copy made by ApplyShift: the immutable members carry over, every cache
\* slot starts empty and the copy has a lock of its own
CopyConstruct(I, mutex) ==
    [ event |-> I.event,
      summaryInfo |-> I.summaryInfo,
      selected_htt_index |-> I.selected_htt_index,
      selected_signal_jets |-> I.selected_signal_jets,
      period |-> I.period,
      jet_ordering |-> I.jet_ordering,
      mutex |-> mutex,
      leg1 |-> Empty, leg2 |-> Empty, jets |-> Empty, fatJets |-> Empty, met |-> Empty,
      higgs_bb |-> Empty, kinfit_results |-> Empty, mt2 |-> Empty, mva_score |-> Empty ]

\* the (event, ordering policy, run summary) an object is constructed for;
\* the summary is absent, present without a jet-energy corrector, or complete
Configs ==
    { << 1, "DeepCSV", "jec" >>,
      << 2, "DeepCSV", "none" >>,
      << 2, "DeepFlavour", "jec" >>,
      << 3, "DeepCSV", "nojec" >> }

\* a thread is idle, inside a call ("in": holding the lock, "fill": computing
\* the slot fld), or has just left a call with the outcome ret ("done")
NoRet == [kind |-> "-", val |-> 0]

Idle == [pc |-> "idle", op |-> "-", inst |-> 0, arg |-> 0, fld |-> "-", kf |-> FALSE,
         ret |-> NoRet]

\* an empty std::shared_ptr<ntuple::EventTuple>
NoTuple == 0

\* the statics of TupleStore as initialized at program start: the counter is
\* zero, the shared pointer is empty, the mutex is free; no producer has called
InitTupleStore ==
    /\ tuple_counter = 0
    /\ eventTuple_ptr = NoTuple
    /\ storeMutex = 0
    /\ producer = [p \in Producers |-> [pc |-> "idle", op |-> "-", ret |-> NoRet]]
    /\ tuples = << >>
    /\ tupleCalls = << >>

Init ==
    /\ \E cfg \in Configs :
          inst = [i \in Inst |-> IF i = 1 THEN Construct(Events[cfg[1]], cfg[2], cfg[3], 1)
                                 ELSE NoInstance]
    /\ ninst = 1
    /\ owner = [m \in Inst |-> 0]
    /\ th = [t \in Threads |-> Idle]
    /\ ncomp = [i \in Inst |-> [f \in MemoSlots |-> 0]]
    /\ filler = [i \in Inst |-> 0]
    /\ corrCalls = << >>
    /\ fitCalls = << >>
    /\ nupd = 0
    /\ InitTupleStore

(***************************************************************************)
(* What each cache slot is computed from.                                  *)
(***************************************************************************)
Filled(I, f) == I[f] # Empty

Ok(v) == [kind |-> "ok", val |-> v]

Err(msg) == [kind |-> "error", val |-> msg]

\* EventInfoBase::GetLegIndex
GetLegIndex(I, leg_id) ==
    IF leg_id = 1 THEN Ok(At(Ev(I).first_daughter_indexes, I.selected_htt_index))
    ELSE IF leg_id = 2 THEN Ok(At(Ev(I).second_daughter_indexes, I.selected_htt_index))
    ELSE Err("Invalid leg id")

\* a GetSummaryInfo that does not test the pointer
GetSummaryInfo_Unchecked(I) == Ok(I.summaryInfo)

\* EventInfoBase::GetSummaryInfo
GetSummaryInfo(I) ==
    IF I.summaryInfo = "none" THEN Err("SummaryInfo was not provided for this event.")
    ELSE Ok(I.summaryInfo)

\* SummaryInfo::GetJecUncertainties
GetJecUncertainties(summaryInfo) ==
    IF summaryInfo # "jec" THEN Err("Jec Uncertainties not stored.") ELSE Ok("jec")

\* the candidate GetFirstLeg / GetSecondLeg build: TupleLepton(event, GetLegIndex(k))
MakeLeg(I, leg_id) ==
    LET idx == GetLegIndex(I, leg_id).val
    IN [leg_id |-> idx, p4 |-> At(Ev(I).lep_p4, idx)]

\* the collection GetJets builds: one candidate per record jet, in record order
MaterializeJets(I) ==
    [k \in 1..GetNJets(I) |-> [index |-> k - 1, p4 |-> Ev(I).jets_p4[k]]]

\* the collection GetFatJets builds
MaterializeFatJets(I) ==
    [k \in 1..GetNFatJets(I) |-> [index |-> k - 1, m |-> Ev(I).fatJets_m[k],
                                    subJets |-> Ev(I).fatJets_subJets[k]]]

\* the candidate GetMET builds from the record's PF MET
MakeMET(I) == [p4 |-> Ev(I).pfMET_p4]

\* both indices of a pair are positions of the object's current jet collection
PairInJets(I, pair) == InRange(I.jets[1], pair.first) /\ InRange(I.jets[1], pair.second)

\* the candidate GetHiggsBB builds from the current jet collection
MakeHiggsBB(I) ==
    [ first |-> At(I.jets[1], I.selected_signal_jets.selectedBjetPair.first),
      second |-> At(I.jets[1], I.selected_signal_jets.selectedBjetPair.second) ]

HiggsMomentum(h) == h.first.p4.pt + h.second.p4.pt

\* the value GetMT2 stores
MakeMT2(I) ==
    Calculate_MT2(I.leg1[1].p4, I.leg2[1].p4, I.higgs_bb[1].first.p4.pt,
                  I.higgs_bb[1].second.p4.pt,
                  Ev(I).pfMET_p4)

\* std::find over kinFit_jetPairId: the first position holding the key, 0 on a miss
KinFitFind(I) ==
    LET pairId == CombinationPairToIndex(I.selected_signal_jets.selectedBjetPair, GetNJets(I))
        hits == {k \in 1..Len(Ev(I).kinFit_jetPairId) : Ev(I).kinFit_jetPairId[k] = pairId}
    IN IF hits = {} THEN 0 ELSE CHOOSE k \in hits : \A h \in hits : k <= h

\* the arguments GetKinFitResults hands to the solver on a miss: the momenta
\* of both legs, of both b-jets and of the MET, and resolution() * E of each
\* b-jet
KinFitArgs(I) ==
    LET b1 == At(I.jets[1], I.selected_signal_jets.selectedBjetPair.first)
        b2 == At(I.jets[1], I.selected_signal_jets.selectedBjetPair.second)
    IN [ l1 |-> I.leg1[1].p4, l2 |-> I.leg2[1].p4,
         b1 |-> b1.p4.pt, b2 |-> b2.p4.pt,
         met |-> I.met[1].p4,
         res1 |-> At(Ev(I).jets_resolution, b1.index) * b1.p4.pt,
         res2 |-> At(Ev(I).jets_resolution, b2.index) * b2.p4.pt ]

\* the result of the solver for these arguments
FitOf(a) == Fit(a.l1, a.l2, a.b1, a.b2, a.met, a.res1, a.res2)

\* the values GetKinFitResults stores: read from the side table on a hit,
\* obtained from the solver on a miss
MakeKinFit(I) ==
    LET k == KinFitFind(I)
        r == FitOf(KinFitArgs(I))
    IN IF k = 0
       THEN [convergence |-> r.convergence, chi2 |-> r.chi2,
             probability |-> Prob(r.chi2), mass |-> r.mass]
       ELSE [convergence |-> Ev(I).kinFit_convergence[k], chi2 |-> Ev(I).kinFit_chi2[k],
             probability |-> Prob(Ev(I).kinFit_chi2[k]), mass |-> Ev(I).kinFit_m[k]]

\* GetHiggsTTMomentum of the configured variant: the SVfit momentum of the
\* record when asked for it, the sum of the two legs otherwise
HasSVfit(I) == InRange(Ev(I).SVfit_p4, I.selected_htt_index)

GetHiggsTTMomentum(I, useSVfit) ==
    IF useSVfit THEN At(Ev(I).SVfit_p4, I.selected_htt_index) ELSE I.leg1[1].p4 + I.leg2[1].p4

\* EventInfoBase::SetJets
\* a SetJets that stores nothing
SetJets_Ignored(I, new_jets) == I

SetJets(I, new_jets) == [I EXCEPT !.jets = << new_jets >>]

\* EventInfoBase::SetMetMomentum: the MET candidate gets a new momentum
SetMetMomentum(I, new_met_p4) == [I EXCEPT !.met = << [p4 |-> new_met_p4] >>]

\* EventInfoBase::SetMvaScore
SetMvaScore(I, score) == [I EXCEPT !.mva_score = << score >>]

\* the value a slot's computation stores, given the slots it reads are filled
Compute(I, f) ==
    CASE f = "leg1" -> MakeLeg(I, 1)
      [] f = "leg2" -> MakeLeg(I, 2)
      [] f = "jets" -> MaterializeJets(I)
      [] f = "fatJets" -> MaterializeFatJets(I)
      [] f = "met" -> MakeMET(I)
      [] f = "higgs_bb" -> MakeHiggsBB(I)
      [] f = "mt2" -> MakeMT2(I)
      [] f = "kinfit_results" -> DefaultFitResults

(***************************************************************************)
(* The accessors that take the object's lock and fill cache slots.  A call *)
(* is a sequence of steps of its thread: it enters (takes the lock), and   *)
(* then repeatedly finds a slot it needs empty and fills it, until it      *)
(* returns or throws; the lock is released on both exits.                  *)
(***************************************************************************)
PlainOps == {"GetFirstLeg", "GetSecondLeg", "GetJets", "GetFatJets", "GetMET",
             "GetHiggsBB", "GetKinFitResults", "GetMT2"}

IndexedOps == {"GetBJet", "GetVBFJet"}

Arg(a, b) == [a |-> a, b |-> b]

NoArg == Arg(0, 0)

\* the index values tried for GetBJet, GetVBFJet and GetLegIndex
IndexArgs == 1..3

\* the slots a call reads directly, in the state of its thread
Targets(T, I) ==
    CASE T.op = "GetFirstLeg" -> {"leg1"}
      [] T.op = "GetSecondLeg" -> {"leg2"}
      [] T.op \in {"GetJets", "GetBJet", "GetVBFJet"} -> {"jets"}
      [] T.op = "GetFatJets" -> {"fatJets"}
      [] T.op = "GetMET" -> {"met"}
      [] T.op = "GetHiggsBB" -> {"higgs_bb"}
      [] T.op = "GetMT2" -> {"mt2"}
      [] T.op = "GetKinFitResults" ->
            IF ~T.kf THEN {"kinfit_results"}
            ELSE IF KinFitFind(I) = 0 THEN {"jets", "leg1", "leg2", "met"} ELSE {}
      [] T.op = "GetResonanceMomentum" ->
            {"higgs_bb"} \cup (IF T.arg.a THEN {} ELSE {"leg1", "leg2"})
                         \cup (IF T.arg.b THEN {"met"} ELSE {})
      [] OTHER -> {}

\* the accessors the computation of a slot calls
Prereq(f) ==
    CASE f = "higgs_bb" -> {"jets"}
      [] f = "mt2" -> {"leg1", "leg2", "higgs_bb"}
      [] OTHER -> {}

\* the empty slots a read of slot f leads to
RECURSIVE Need(_, _)
Need(I, f) ==
    IF Filled(I, f) THEN {} ELSE {f} \cup UNION {Need(I, p) : p \in Prereq(f)}

NeedAll(T, I) == UNION {Need(I, f) : f \in Targets(T, I)}

\* a GetKinFitResults that does not test for the b-jet pair
EntryErrors_NoKinFitCheck(T, I) ==
    IF T.op = "GetResonanceMomentum" /\ T.arg.a /\ T.arg.b
        THEN {"Can't add MET and with SVfit applied."}
    ELSE IF T.op = "GetHiggsBB" /\ ~HasBjetPair(I)
        THEN {"Can't create H->bb candidate."}
    ELSE {}

\* a GetResonanceMomentum that does not test its two options
EntryErrors_NoConflictCheck(T, I) ==
    IF T.op = "GetHiggsBB" /\ ~HasBjetPair(I)
        THEN {"Can't create H->bb candidate."}
    ELSE IF T.op = "GetKinFitResults" /\ ~HasBjetPair(I)
        THEN {"Can't retrieve KinFit results."}
    ELSE {}

\* the checks made right after taking the lock
EntryErrors(T, I) ==
    IF T.op = "GetResonanceMomentum" /\ T.arg.a /\ T.arg.b
        THEN {"Can't add MET and with SVfit applied."}
    ELSE IF T.op = "GetHiggsBB" /\ ~HasBjetPair(I)
        THEN {"Can't create H->bb candidate."}
    ELSE IF T.op = "GetKinFitResults" /\ ~HasBjetPair(I)
        THEN {"Can't retrieve KinFit results."}
    ELSE {}

\* an indexed accessor that reads the first member of the pair for every index
IndexedJetPos_First(T, I) ==
    IF T.op = "GetBJet" THEN I.selected_signal_jets.selectedBjetPair.first
    ELSE I.selected_signal_jets.selectedVBFjetPair.first

\* the jet position an indexed accessor reads
IndexedJetPos(T, I) ==
    LET pair == IF T.op = "GetBJet" THEN I.selected_signal_jets.selectedBjetPair
                ELSE I.selected_signal_jets.selectedVBFjetPair
    IN IF T.arg.a = 1 THEN pair.first ELSE pair.second

\* the errors a nested call or an element access raises
NestedErrors(T, I) ==
    (IF "higgs_bb" \in NeedAll(T, I) /\ ~HasBjetPair(I)
        THEN {"Can't create H->bb candidate."} ELSE {})
    \cup
    (IF T.op = "GetResonanceMomentum" /\ T.arg.a /\ ~HasSVfit(I)
        THEN {"Method not supported."} ELSE {})
    \cup
    (IF /\ "higgs_bb" \in NeedAll(T, I) /\ HasBjetPair(I) /\ Filled(I, "jets")
        /\ ~PairInJets(I, I.selected_signal_jets.selectedBjetPair)
        THEN {"out_of_range"} ELSE {})
    \cup
    (IF /\ T.op = "GetKinFitResults" /\ T.kf /\ KinFitFind(I) = 0 /\ Filled(I, "jets")
        /\ ~PairInJets(I, I.selected_signal_jets.selectedBjetPair)
        THEN {"out_of_range"} ELSE {})
    \cup
    (IF /\ T.op \in IndexedOps /\ Filled(I, "jets")
        /\ ~InRange(I.jets[1], IndexedJetPos(T, I))
        THEN {"out_of_range"} ELSE {})

Errors(T, I) == IF EntryErrors(T, I) # {} THEN EntryErrors(T, I) ELSE NestedErrors(T, I)

\* the slots the call may find empty and fill next; the order in which the
\* operands of one expression are evaluated is left open
Fills(T, I) ==
    IF EntryErrors(T, I) # {} THEN {}
    ELSE { f \in NeedAll(T, I) :
             /\ \A p \in Prereq(f) : Filled(I, p)
             /\ (f \in {"higgs_bb", "jets"} /\ "higgs_bb" \in NeedAll(T, I)) => HasBjetPair(I)
             /\ f = "higgs_bb" => PairInJets(I, I.selected_signal_jets.selectedBjetPair)
             /\ (T.op = "GetResonanceMomentum" /\ f = "met") => NeedAll(T, I) = {"met"}
             /\ (T.op = "GetKinFitResults" /\ f \in {"leg1", "leg2", "met"}) =>
                    (Filled(I, "jets")
                     /\ PairInJets(I, I.selected_signal_jets.selectedBjetPair)) }

\* the value the call returns once nothing is left to fill
Result(T, I) ==
    CASE T.op = "GetFirstLeg" -> I.leg1[1]
      [] T.op = "GetSecondLeg" -> I.leg2[1]
      [] T.op = "GetJets" -> I.jets[1]
      [] T.op = "GetFatJets" -> I.fatJets[1]
      [] T.op = "GetMET" -> I.met[1]
      [] T.op = "GetHiggsBB" -> I.higgs_bb[1]
      [] T.op = "GetMT2" -> I.mt2[1]
      [] T.op = "GetKinFitResults" -> I.kinfit_results[1]
      [] T.op \in IndexedOps -> At(I.jets[1], IndexedJetPos(T, I))
      [] T.op = "GetResonanceMomentum" ->
            GetHiggsTTMomentum(I, T.arg.a) + HiggsMomentum(I.higgs_bb[1])
                + (IF T.arg.b THEN I.met[1].p4 ELSE 0)

\* an accessor that would not wait for the mutex
CanLock_NoWait(m, t) == TRUE

\* Lock lock(*mutex): the mutex is free for the calling thread
CanLock(m, t) == owner[m] = 0

\* a mutex that its holder cannot lock again
Relock_NonRecursive(m, t) == owner[m] = 0

\* Lock lock(*mutex) in an accessor called by an accessor of the same object: the
\* thread that holds the mutex locks it again
Relock(m, t) == owner[m] \in {0, t}

\* a lock guard that an exception leaves locked
LockAtExit_HeldOnError(t, kind) == IF kind = "error" THEN t ELSE 0

\* the holder of the mutex once the call of thread t has ended with a result or
\* an error: the guard "lock" is a local object, destroyed on every exit
LockAtExit(t, kind) == 0

\* the accessors that, holding the lock, call locking accessors of the same object
NestedOps == {"GetHiggsBB", "GetResonanceMomentum", "GetMT2", "GetKinFitResults"}

\* no call has an outcome waiting to be taken by its caller
Quiet == \A u \in Threads : th[u].pc # "done"

\* a thread may start a call
CanCall(t) == Quiet /\ th[t].pc = "idle"

\* one more call may fill or replace a cache slot
CanUpdate == nupd < MaxUpdates

\* the thread record of a call that ended with the given outcome
Done(T, kind, val) ==
    [T EXCEPT !.pc = "done", !.fld = "-", !.kf = FALSE, !.ret = [kind |-> kind, val |-> val]]

\* The call of thread t, in state T on object i whose members are now I, runs
\* on under the lock up to its next exit or up to the next slot it finds empty
\* (the test "if(!slot)" succeeds); the nested accessors take the lock again.
\* GetKinFitResults that has allocated its result fills it before returning:
\* from the side table, or from the solver once legs, b-jets and MET are there
\* (the invocation of the solver is recorded in fitCalls).
Continue(t, i, T, I) ==
    /\ T.op \in NestedOps => Relock(I.mutex, t)
    /\ UNCHANGED tupleStore
    /\ \/ \E e \in Errors(T, I) :
             /\ th' = [th EXCEPT ![t] = Done(T, "error", e)]
             /\ inst' = [inst EXCEPT ![i] = I]
             /\ owner' = [owner EXCEPT ![I.mutex] = LockAtExit(t, "error")]
             /\ UNCHANGED fitCalls
       \/ \E f \in Fills(T, I) :
             /\ th' = [th EXCEPT ![t] = [T EXCEPT !.pc = "fill", !.fld = f]]
             /\ inst' = [inst EXCEPT ![i] = I]
             /\ owner' = [owner EXCEPT ![I.mutex] = t]
             /\ UNCHANGED fitCalls
       \/ /\ Errors(T, I) = {}
          /\ Fills(T, I) = {}
          /\ LET I2 == IF T.kf THEN [I EXCEPT !.kinfit_results = << MakeKinFit(I) >>] ELSE I
             IN /\ th' = [th EXCEPT ![t] = Done(T, "ok", Result(T, I2))]
                /\ inst' = [inst EXCEPT ![i] = I2]
          /\ fitCalls' = IF T.kf /\ KinFitFind(I) = 0
                         THEN Append(fitCalls, [inst |-> i, args |-> KinFitArgs(I)])
                         ELSE fitCalls
          /\ owner' = [owner EXCEPT ![I.mutex] = LockAtExit(t, "ok")]

\* a thread calls one of the locking accessors: it takes the object's lock and
\* runs up to its exit or to the first slot it finds empty
Enter(t) ==
    \E i \in 1..ninst :
    \E c \in [op : PlainOps, arg : {NoArg}]
             \cup [op : {"GetResonanceMomentum"}, arg : {Arg(x, y) : x, y \in BOOLEAN}] :
        LET T == [pc |-> "in", op |-> c.op, inst |-> i, arg |-> c.arg,
                  fld |-> "-", kf |-> FALSE, ret |-> NoRet]
            fills == Fills(T, inst[i]) # {}
        IN /\ CanCall(t)
           /\ fills => CanUpdate
           /\ CanLock(inst[i].mutex, t)
           /\ Continue(t, i, T, inst[i])
           /\ nupd' = nupd + (IF fills THEN 1 ELSE 0)
           /\ UNCHANGED << ninst, ncomp, filler, corrCalls >>

\* GetBJet / GetVBFJet: the pair and the index are checked before GetJets is
\* called; a rejected call never takes the lock
EnterIndexed(t) ==
    \E i \in 1..ninst, op \in IndexedOps, index \in IndexArgs :
        LET has == IF op = "GetBJet" THEN HasBjetPair(inst[i]) ELSE HasVBFjetPair(inst[i])
            T == [pc |-> "in", op |-> op, inst |-> i, arg |-> Arg(index, 0),
                  fld |-> "-", kf |-> FALSE, ret |-> NoRet]
        IN /\ CanCall(t)
           /\ IF ~has \/ (index # 1 /\ index # 2)
              THEN /\ th' = [th EXCEPT ![t] =
                               Done(T, "error", IF op = "GetBJet" THEN "B jet not found."
                                                ELSE "VBF jet not found.")]
                   /\ UNCHANGED << inst, owner, fitCalls, nupd >>
                   /\ UNCHANGED tupleStore
              ELSE /\ ~Filled(inst[i], "jets") => CanUpdate
                   /\ CanLock(inst[i].mutex, t)
                   /\ Continue(t, i, T, inst[i])
                   /\ nupd' = nupd + (IF Filled(inst[i], "jets") THEN 0 ELSE 1)
           /\ UNCHANGED << ninst, ncomp, filler, corrCalls >>

\* the slot's computation can run on the slots it reads
CanCompute(I, f) ==
    /\ \A p \in Prereq(f) : Filled(I, p)
    /\ f = "higgs_bb" =>
          (Filled(I, "jets") /\ PairInJets(I, I.selected_signal_jets.selectedBjetPair))

\* the computation of the slot found empty runs and its result is stored (for
\* the kinematic fit the slot first receives a default-constructed result);
\* the call then runs on
Store(t) ==
    LET i == th[t].inst
        f == th[t].fld
        I == [inst[i] EXCEPT ![f] = << Compute(inst[i], f) >>]
        T == [th[t] EXCEPT !.pc = "in", !.fld = "-", !.kf = (@ \/ f = "kinfit_results")]
    IN /\ Quiet
       /\ th[t].pc = "fill"
       /\ IF CanCompute(inst[i], f)
          THEN /\ Continue(t, i, T, I)
               /\ ncomp' = [ncomp EXCEPT ![i][f] = @ + 1]
               /\ filler' = [filler EXCEPT ![i] = t]
          ELSE /\ th' = [th EXCEPT ![t] = Done(th[t], "error", "out_of_range")]
               /\ owner' = [owner EXCEPT ![inst[i].mutex] = LockAtExit(t, "error")]
               /\ UNCHANGED << inst, ncomp, filler, fitCalls >>
               /\ UNCHANGED tupleStore
       /\ UNCHANGED << ninst, corrCalls, nupd >>

\* the caller takes the outcome of its call
Ack(t) ==
    /\ th[t].pc = "done"
    /\ th' = [th EXCEPT ![t] = Idle]
    /\ UNCHANGED << inst, ninst, owner, ncomp, filler, corrCalls, fitCalls, nupd >>
    /\ UNCHANGED tupleStore

(***************************************************************************)
(* Calls that complete in one step of their thread.                        *)
(***************************************************************************)
OneStep(t, op, i, arg, kind, val) ==
    /\ th' = [th EXCEPT ![t] = [pc |-> "done", op |-> op, inst |-> i, arg |-> arg,
                                fld |-> "-", kf |-> FALSE,
                                ret |-> [kind |-> kind, val |-> val]]]
    /\ UNCHANGED tupleStore

\* the collections handed to SetJets: the record's jets with changed momenta,
\* and a collection with fewer entries than the record has jets
NewJetsInputs(I) ==
    { [k \in 1..GetNJets(I) |-> [index |-> k - 1,
                                  p4 |-> [Ev(I).jets_p4[k] EXCEPT !.pt = @ + 5]]],
      SubSeq(MaterializeJets(I), 1, IF GetNJets(I) = 0 THEN 0 ELSE 1) }

MvaInputs == {7}

\* SetJets(new_jets), under the lock
CallSetJets(t) ==
    \E i \in 1..ninst : \E c \in NewJetsInputs(inst[i]) :
        /\ CanCall(t)
        /\ CanUpdate
        /\ CanLock(inst[i].mutex, t)
        /\ inst' = [inst EXCEPT ![i] = SetJets(inst[i], c)]
        /\ OneStep(t, "SetJets", i, Arg(c, 0), "ok", 0)
        /\ nupd' = nupd + 1
        /\ UNCHANGED << ninst, owner, ncomp, filler, corrCalls, fitCalls >>

\* SetMvaScore(score), under the lock
CallSetMvaScore(t) ==
    \E i \in 1..ninst, v \in MvaInputs :
        /\ CanCall(t)
        /\ CanUpdate
        /\ CanLock(inst[i].mutex, t)
        /\ inst' = [inst EXCEPT ![i] = SetMvaScore(inst[i], v)]
        /\ OneStep(t, "SetMvaScore", i, Arg(v, 0), "ok", 0)
        /\ nupd' = nupd + 1
        /\ UNCHANGED << ninst, owner, ncomp, filler, corrCalls, fitCalls >>

\* GetMvaScore: reads the member without taking the lock
CallGetMvaScore(t) ==
    \E i \in 1..ninst :
        /\ CanCall(t)
        /\ OneStep(t, "GetMvaScore", i, NoArg, "ok", inst[i].mva_score)
        /\ UNCHANGED << inst, ninst, owner, ncomp, filler, corrCalls, fitCalls, nupd >>

\* GetLegIndex(leg_id)
CallGetLegIndex(t) ==
    \E i \in 1..ninst, k \in IndexArgs :
        /\ CanCall(t)
        /\ OneStep(t, "GetLegIndex", i, Arg(k, 0),
                   GetLegIndex(inst[i], k).kind, GetLegIndex(inst[i], k).val)
        /\ UNCHANGED << inst, ninst, owner, ncomp, filler, corrCalls, fitCalls, nupd >>

\* GetSummaryInfo()
CallGetSummaryInfo(t) ==
    \E i \in 1..ninst :
        /\ CanCall(t)
        /\ OneStep(t, "GetSummaryInfo", i, NoArg,
                   GetSummaryInfo(inst[i]).kind, GetSummaryInfo(inst[i]).val)
        /\ UNCHANGED << inst, ninst, owner, ncomp, filler, corrCalls, fitCalls, nupd >>

(***************************************************************************)
(* The systematic shift.  The copy is local to the calling thread until it *)
(* is returned, so the calls made on it meet no other thread.              *)
(***************************************************************************)
\* a GetJets that builds the jets from the record on every call
WithJets_Rebuild(S) == [S EXCEPT !.jets = << MaterializeJets(S) >>]

\* GetJets / GetMET on the copy: fill the slot when it is empty
WithJets(S) == IF Filled(S, "jets") THEN S ELSE [S EXCEPT !.jets = << MaterializeJets(S) >>]

WithMET(S) == IF Filled(S, "met") THEN S ELSE [S EXCEPT !.met = << MakeMET(S) >>]

\* the arguments ApplyShift hands to the corrector for copy S of the source:
\* the copy's jets, the record's other jets, the momentum of the copy's MET
CorrectorArgs(S) ==
    [ jets |-> WithJets(S).jets[1],
      other_jets_p4 |-> Ev(S).other_jets_p4,
      met_p4 |-> WithMET(WithJets(S)).met[1].p4 ]

\* an ApplyShift that leaves out SetMetMomentum
ShiftedCopy_NoMet(S, source, scale) ==
    LET a == CorrectorArgs(S)
        r == JecApplyShift(a.jets, source, scale, a.other_jets_p4, a.met_p4)
    IN SetJets(WithMET(WithJets(S)), r.jets)

\* an ApplyShift that selects the signal jets anew from the corrected jets
ShiftedCopy_Reselect(S, source, scale) ==
    LET a == CorrectorArgs(S)
        r == JecApplyShift(a.jets, source, scale, a.other_jets_p4, a.met_p4)
        corrected == [Ev(S) EXCEPT !.jets_p4 = [k \in 1..Len(r.jets) |-> r.jets[k].p4]]
    IN [SetMetMomentum(SetJets(WithMET(WithJets(S)), r.jets), r.met_p4)
            EXCEPT !.selected_signal_jets = SelectSignalJets(corrected, S.jet_ordering)]

\* the object EventInfoBase::ApplyShift returns for copy S of the source
ShiftedCopy(S, source, scale) ==
    LET a == CorrectorArgs(S)
        r == JecApplyShift(a.jets, source, scale, a.other_jets_p4, a.met_p4)
    IN SetMetMomentum(SetJets(WithMET(WithJets(S)), r.jets), r.met_p4)

\* the outcome of EventInfoBase::ApplyShift on object I: the failure of
\* GetSummaryInfo or GetJecUncertainties, or the shifted copy
ApplyShiftOutcome(I, mutex, source, scale) ==
    LET S == CopyConstruct(I, mutex)
    IN IF GetSummaryInfo(S).kind = "error" THEN GetSummaryInfo(S)
       ELSE IF GetJecUncertainties(GetSummaryInfo(S).val).kind = "error"
            THEN GetJecUncertainties(GetSummaryInfo(S).val)
       ELSE Ok(ShiftedCopy(S, source, scale))

\* an ApplyShift that sets the corrected jets and MET on the source as well
AfterShift_OnSource(objs, i, n, S) ==
    [objs EXCEPT ![n] = S, ![i] = [@ EXCEPT !.jets = S.jets, !.met = S.met]]

\* the objects after ApplyShift on one of them returned S as object n: every
\* call ApplyShift makes is made on the copy, which becomes a new object
AfterShift(objs, i, n, S) == [objs EXCEPT ![n] = S]

ApplyShift(t) ==
    \E i \in 1..ninst, source \in UncSources, scale \in UncScales :
        LET S == CopyConstruct(inst[i], ninst + 1)
            out == ApplyShiftOutcome(inst[i], ninst + 1, source, scale)
        IN /\ CanCall(t)
           /\ IF out.kind = "error"
              THEN /\ OneStep(t, "ApplyShift", i, Arg(source, scale), "error", out.val)
                   /\ UNCHANGED << inst, ninst, ncomp, filler, corrCalls, nupd >>
              ELSE /\ ninst < MaxInst
                   /\ CanUpdate
                   /\ nupd' = nupd + 1
                   /\ inst' = AfterShift(inst, i, ninst + 1, out.val)
                   /\ ninst' = ninst + 1
                   /\ ncomp' = [ncomp EXCEPT
                                  ![ninst + 1]["jets"] = IF Filled(S, "jets") THEN 0 ELSE 1,
                                  ![ninst + 1]["met"] = IF Filled(S, "met") THEN 0 ELSE 1]
                   /\ filler' = [filler EXCEPT ![ninst + 1] = t]
                   /\ corrCalls' = Append(corrCalls,
                                          [ src |-> i, result |-> ninst + 1,
                                            source |-> source, scale |-> scale,
                                            jets |-> CorrectorArgs(S).jets,
                                            other_jets_p4 |-> CorrectorArgs(S).other_jets_p4,
                                            met_p4 |-> CorrectorArgs(S).met_p4 ])
                   /\ OneStep(t, "ApplyShift", i, Arg(source, scale), "ok", ninst + 1)
           /\ UNCHANGED << owner, fitCalls >>

\* one caller exercising the whole interface of every object
(***************************************************************************)
(* A caller that calls the memoized accessor it has just left once more.   *)
(***************************************************************************)
MemoOps == {"GetFirstLeg", "GetSecondLeg", "GetJets", "GetFatJets", "GetMET", "GetHiggsBB",
            "GetKinFitResults", "GetMT2"}

\* the second of two successive calls of one accessor on one object: the
\* thread still holds the outcome of the first call when it enters again
Repeat(t) ==
    LET i == th[t].inst
        T == [pc |-> "in", op |-> th[t].op, inst |-> i, arg |-> NoArg,
              fld |-> "-", kf |-> FALSE, ret |-> NoRet]
        fills == Fills(T, inst[i]) # {}
    IN /\ th[t].pc = "done"
       /\ th[t].op \in MemoOps
       /\ fills => CanUpdate
       /\ CanLock(inst[i].mutex, t)
       /\ Continue(t, i, T, inst[i])
       /\ nupd' = nupd + (IF fills THEN 1 ELSE 0)
       /\ UNCHANGED << ninst, ncomp, filler, corrCalls >>

(***************************************************************************)
(* The static SelectSignalJets, called again on the record of an object.   *)
(***************************************************************************)
JetOrderings == {"DeepCSV", "DeepFlavour"}

\* a selection input that takes the jet momenta from the jets slot
SelectionInput_FromCache(I) ==
    IF Filled(I, "jets") /\ Len(I.jets[1]) = GetNJets(I)
    THEN [Ev(I) EXCEPT !.jets_p4 = [k \in 1..GetNJets(I) |-> I.jets[1][k].p4]]
    ELSE Ev(I)

\* the event record handed to SelectSignalJets: the record of the object
SelectionInput(I) == Ev(I)

\* EventInfoBase::SelectSignalJets(event, period, jet_ordering): reads its
\* arguments only and takes no lock
CallSelectSignalJets(t) ==
    \E i \in 1..ninst, jo \in JetOrderings :
        /\ CanCall(t)
        /\ OneStep(t, "SelectSignalJets", i, Arg(jo, 0), "ok",
                   SelectSignalJets(SelectionInput(inst[i]), jo))
        /\ UNCHANGED << inst, ninst, owner, ncomp, filler, corrCalls, fitCalls, nupd >>

(***************************************************************************)
(* Calls that wait for the lock: a thread that calls a locking operation   *)
(* waits until the mutex of the object is free, takes it, and runs.        *)
(***************************************************************************)
MakeMutex_Shared(k) == 1

\* mutex = std::make_shared<Mutex>(): the k-th object constructed gets a new mutex
MakeMutex(k) == k

\* the locking calls made on object I
LockCalls ==
    [op : {"GetHiggsBB"}, arg : {NoArg}]
    \cup [op : {"SetMvaScore"}, arg : {Arg(v, 0) : v \in MvaInputs}]

\* the calls of the accessors that call other locking accessors of the object
NestedCalls ==
    [op : {"GetHiggsBB"}, arg : {NoArg}]
    \cup [op : {"GetResonanceMomentum"}, arg : {Arg(TRUE, FALSE), Arg(TRUE, TRUE)}]

\* thread t calls one of the calls and comes to its "Lock lock(*mutex)"
Call(t, calls) ==
    \E i \in 1..ninst : \E c \in calls :
        /\ CanCall(t)
        /\ CanUpdate
        /\ th' = [th EXCEPT ![t] = [pc |-> "wait", op |-> c.op, inst |-> i, arg |-> c.arg,
                                    fld |-> "-", kf |-> FALSE, ret |-> NoRet]]
        /\ nupd' = nupd + 1
        /\ UNCHANGED << inst, ninst, owner, ncomp, filler, corrCalls, fitCalls >>
        /\ UNCHANGED tupleStore

Request(t) == Call(t, LockCalls)

RequestNested(t) == Call(t, NestedCalls)

\* the mutex is free: the waiting thread takes it; SetMvaScore writes the member
\* and returns, an accessor runs up to its exit or to the first slot it finds empty
Acquire(t) ==
    LET i == th[t].inst
    IN /\ Quiet
       /\ th[t].pc = "wait"
       /\ CanLock(inst[i].mutex, t)
       /\ IF th[t].op = "SetMvaScore"
          THEN /\ inst' = [inst EXCEPT ![i] = SetMvaScore(@, th[t].arg.a)]
               /\ th' = [th EXCEPT ![t] = Done(th[t], "ok", 0)]
               /\ owner' = [owner EXCEPT ![inst[i].mutex] = LockAtExit(t, "ok")]
               /\ UNCHANGED fitCalls
               /\ UNCHANGED tupleStore
          ELSE Continue(t, i, [th[t] EXCEPT !.pc = "in"], inst[i])
       /\ UNCHANGED << ninst, ncomp, filler, corrCalls, nupd >>

\* the constructor arguments of the objects the threads share
LockConfigs == { << 2, "DeepFlavour", "jec" >> }

\* one object, or two objects constructed for two records
InitLock ==
    /\ \E cfg \in LockConfigs, two \in BOOLEAN :
          /\ inst = [i \in Inst |->
                       IF i = 1 THEN Construct(Events[cfg[1]], cfg[2], cfg[3], MakeMutex(1))
                       ELSE IF i = 2 /\ two
                            THEN Construct(Events[1], "DeepCSV", "jec", MakeMutex(2))
                       ELSE NoInstance]
          /\ ninst = IF two THEN 2 ELSE 1
    /\ owner = [m \in Inst |-> 0]
    /\ th = [t \in Threads |-> Idle]
    /\ ncomp = [i \in Inst |-> [f \in MemoSlots |-> 0]]
    /\ filler = [i \in Inst |-> 0]
    /\ corrCalls = << >>
    /\ fitCalls = << >>
    /\ nupd = 0
    /\ InitTupleStore

NextLock ==
    \E t \in Threads :
        \/ Request(t)
        \/ Acquire(t)
        \/ Store(t)
        \/ Ack(t)
        \/ CallGetMvaScore(t)
        \/ ApplyShift(t)

SpecLock == InitLock /\ [][NextLock]_vars

\* fair scheduling: a thread that can take a step of its call takes it, and a thread
\* that can take the lock again and again does take it
FairLock ==
    \A t \in Threads :
        /\ SF_vars(Acquire(t))
        /\ SF_vars(Store(t))
        /\ WF_vars(Ack(t))

\* the threads call the locking operations only
NextWait ==
    \E t \in Threads :
        \/ RequestNested(t)
        \/ Acquire(t)
        \/ Store(t)
        \/ Ack(t)

SpecLockFair == InitLock /\ [][NextWait]_vars /\ FairLock

Next ==
    \E t \in {1} :
        \/ Enter(t)
        \/ EnterIndexed(t)
        \/ Store(t)
        \/ Ack(t)
        \/ CallSetJets(t)
        \/ CallSetMvaScore(t)
        \/ CallGetMvaScore(t)
        \/ CallGetLegIndex(t)
        \/ CallGetSummaryInfo(t)
        \/ CallSelectSignalJets(t)
        \/ Repeat(t)
        \/ ApplyShift(t)

Spec == Init /\ [][Next]_vars

\* several threads calling the accessors of the objects concurrently
NextMT ==
    \E t \in Threads :
        \/ Enter(t)
        \/ EnterIndexed(t)
        \/ Store(t)
        \/ Ack(t)

SpecMT == Init /\ [][NextMT]_vars

(***************************************************************************)
(* SelectJets: the filtered and ranked jets of an object.                  *)
(***************************************************************************)
\* the arguments of SelectJets
SelectJetsArg(pt_cut, eta_cut, applyPu, passBtag, jet_ordering, exclude, low_eta_cut) ==
    [pt_cut |-> pt_cut, eta_cut |-> eta_cut, applyPu |-> applyPu, passBtag |-> passBtag,
     jet_ordering |-> jet_ordering, jet_to_exclude_indexes |-> exclude,
     low_eta_cut |-> low_eta_cut]

SelectJetsArgs ==
    { SelectJetsArg(20, 47, FALSE, FALSE, "DeepCSV", {}, 0),
      SelectJetsArg(20, 50, FALSE, FALSE, "DeepCSV", {0}, 0),
      SelectJetsArg(30, 47, TRUE, FALSE, "DeepFlavour", {}, 4),
      SelectJetsArg(20, 24, TRUE, TRUE, "DeepCSV", {1}, 0),
      SelectJetsArg(20, 24, FALSE, TRUE, "DeepFlavour", {0, 2}, 0) }

\* a loop body that does not look at the exclusion set
SelectJetsKeeps_NoExclusion(I, a, n) ==
    /\ PassEcalNoiceVetoJets(At(I.jets[1], n).p4, I.period, At(Ev(I).jets_pu_id, n))
    /\ ~(a.applyPu /\ ~PuBit2(At(Ev(I).jets_pu_id, n)))
    /\ ~(Abs(At(I.jets[1], n).p4.eta) < a.low_eta_cut)
    /\ ~(a.passBtag /\ ~BTagPass(Ev(I), a.jet_ordering, n))

\* the body of the loop over all_jets: jet n is kept unless one of the
\* tests continues
SelectJetsKeeps(I, a, n) ==
    /\ PassEcalNoiceVetoJets(At(I.jets[1], n).p4, I.period, At(Ev(I).jets_pu_id, n))
    /\ n \notin a.jet_to_exclude_indexes
    /\ ~(a.applyPu /\ ~PuBit2(At(Ev(I).jets_pu_id, n)))
    /\ ~(Abs(At(I.jets[1], n).p4.eta) < a.low_eta_cut)
    /\ ~(a.passBtag /\ ~BTagPass(Ev(I), a.jet_ordering, n))

\* jet_info_vector, from jet n on
RECURSIVE SelectJetsInfoFrom(_, _, _)
SelectJetsInfoFrom(I, a, n) ==
    IF n >= Len(I.jets[1]) THEN << >>
    ELSE LET rest == SelectJetsInfoFrom(I, a, n + 1)
         IN IF SelectJetsKeeps(I, a, n)
            THEN << [p4 |-> At(I.jets[1], n).p4, index |-> n,
                     tag |-> BTag(Ev(I), a.jet_ordering, n)] >> \o rest
            ELSE rest

\* EventInfoBase::SelectJets on an object whose jets slot is filled: the
\* kept jets within the cuts, ranked by tag; event->jets_pu_id.at(n) throws
\* when the jets slot holds more jets than the record
SelectJets(I, a) ==
    IF Len(I.jets[1]) > GetNJets(I) THEN Err("out_of_range")
    ELSE LET jets_ordered == OrderJets(SelectJetsInfoFrom(I, a, 0), a.pt_cut, a.eta_cut)
         IN Ok([h \in 1..Len(jets_ordered) |-> At(I.jets[1], jets_ordered[h].index)])

\* SelectJets(...), under the lock: GetJets fills the jets slot if it is
\* empty, then the jets are filtered and ranked
CallSelectJets(t) ==
    \E i \in 1..ninst, a \in SelectJetsArgs :
        LET fills == ~Filled(inst[i], "jets")
            J == WithJets(inst[i])
        IN /\ CanCall(t)
           /\ CanLock(inst[i].mutex, t)
           /\ fills => CanUpdate
           /\ inst' = [inst EXCEPT ![i] = J]
           /\ ncomp' = IF fills THEN [ncomp EXCEPT ![i]["jets"] = @ + 1] ELSE ncomp
           /\ filler' = IF fills THEN [filler EXCEPT ![i] = t] ELSE filler
           /\ nupd' = IF fills THEN nupd + 1 ELSE nupd
           /\ OneStep(t, "SelectJets", i, Arg(a, 0), SelectJets(J, a).kind, SelectJets(J, a).val)
           /\ UNCHANGED << ninst, owner, corrCalls, fitCalls >>

(***************************************************************************)
(* GetHT: the summed pt of the jets of a fixed sub-selection.              *)
(***************************************************************************)
other_jets_min_pt == 20
other_jets_max_eta == 47
\* the eta window when apply_eta_cut is not set
wide_eta_cut == 50

\* the value of low_eta_cut when SelectJets is called without it
default_low_eta_cut == 0

\* EventInfoBase::GetSelectedBjetIndicesSet: both indices of the b-jet pair,
\* whatever their values
GetSelectedBjetIndicesSet(I) ==
    {I.selected_signal_jets.selectedBjetPair.first,
     I.selected_signal_jets.selectedBjetPair.second}

\* the loop adding up jet.GetMomentum().pt()
RECURSIVE SumPt(_)
SumPt(js) == IF js = << >> THEN 0 ELSE Head(js).p4.pt + SumPt(Tail(js))

\* EventInfoBase::GetHT on an object whose jets slot is filled
GetHT(I, includeHbbJets, apply_eta_cut) ==
    LET eta_cut == IF apply_eta_cut THEN other_jets_max_eta ELSE wide_eta_cut
        jets_to_exclude == IF includeHbbJets THEN {} ELSE GetSelectedBjetIndicesSet(I)
        r == SelectJets(I, SelectJetsArg(other_jets_min_pt, eta_cut, FALSE, FALSE, "DeepCSV",
                                         jets_to_exclude, default_low_eta_cut))
    IN IF r.kind = "error" THEN r ELSE Ok(SumPt(r.val))

\* GetHT(includeHbbJets, apply_eta_cut): SelectJets takes the lock and fills
\* the jets slot if it is empty
CallGetHT(t) ==
    \E i \in 1..ninst, includeHbbJets \in BOOLEAN, apply_eta_cut \in BOOLEAN :
        LET fills == ~Filled(inst[i], "jets")
            J == WithJets(inst[i])
        IN /\ CanCall(t)
           /\ CanLock(inst[i].mutex, t)
           /\ fills => CanUpdate
           /\ inst' = [inst EXCEPT ![i] = J]
           /\ ncomp' = IF fills THEN [ncomp EXCEPT ![i]["jets"] = @ + 1] ELSE ncomp
           /\ filler' = IF fills THEN [filler EXCEPT ![i] = t] ELSE filler
           /\ nupd' = IF fills THEN nupd + 1 ELSE nupd
           /\ OneStep(t, "GetHT", i, Arg(includeHbbJets, apply_eta_cut),
                      GetHT(J, includeHbbJets, apply_eta_cut).kind,
                      GetHT(J, includeHbbJets, apply_eta_cut).val)
           /\ UNCHANGED << ninst, owner, corrCalls, fitCalls >>

(***************************************************************************)
(* SelectFatJet: the first fat jet whose two leading subjets match the two *)
(* daughters of the Higgs-bb candidate.  DeltaR is the distance in eta.    *)
(***************************************************************************)
DeltaR(p1, p2) == Abs(p1.eta - p2.eta)

\* the result "no fat jet" (a null pointer)
NoFatJet == [index |-> -1, m |-> 0, subJets |-> << >>]

\* the fat jets the loop looks at: mass not below the cut, two subjets or more
FatJetExamined(fatJet, mass_cut) ==
    ~(fatJet.m < mass_cut) /\ ~(Len(fatJet.subJets) < 2)

\* the positions std::sort by descending pt may leave in front; subjets of
\* equal pt may come out in either order
LeadingSubJets(subJets) ==
    { l \in (1..Len(subJets)) \X (1..Len(subJets)) :
        /\ l[1] # l[2]
        /\ subJets[l[1]].pt >= subJets[l[2]].pt
        /\ \A c \in (1..Len(subJets)) \ {l[1], l[2]} : subJets[l[2]].pt >= subJets[c].pt }

FatJetMatches_SameDaughter(subJets, lead, daughters, deltaR_subjet_cut) ==
    \E k \in 1..2 :
        /\ DeltaR(subJets[lead[1]], daughters[k]) < deltaR_subjet_cut
        /\ DeltaR(subJets[lead[2]], daughters[k]) < deltaR_subjet_cut

\* the test of one fat jet, its leading subjets at the positions lead
FatJetMatches(subJets, lead, daughters, deltaR_subjet_cut) ==
    LET deltaR == [n \in 1..2 |-> [k \in 1..2 |-> DeltaR(subJets[lead[n]], daughters[k])]]
    IN \/ deltaR[1][1] < deltaR_subjet_cut /\ deltaR[2][2] < deltaR_subjet_cut
       \/ deltaR[1][2] < deltaR_subjet_cut /\ deltaR[2][1] < deltaR_subjet_cut

\* the momenta of the two daughters of the stored Higgs-bb candidate
GetDaughterMomentums(I) == << I.higgs_bb[1].first.p4, I.higgs_bb[1].second.p4 >>

\* the results the loop may give from position k on, for an object whose fat jets
\* and Higgs-bb candidate are stored
RECURSIVE SelectFatJetFrom(_, _, _, _)
SelectFatJetFrom(I, mass_cut, deltaR_subjet_cut, k) ==
    IF k > Len(I.fatJets[1]) THEN {NoFatJet}
    ELSE LET fatJet == I.fatJets[1][k]
             rest == SelectFatJetFrom(I, mass_cut, deltaR_subjet_cut, k + 1)
             matches == { FatJetMatches(fatJet.subJets, l, GetDaughterMomentums(I),
                                        deltaR_subjet_cut) :
                            l \in LeadingSubJets(fatJet.subJets) }
         IN IF ~FatJetExamined(fatJet, mass_cut) THEN rest
            ELSE (IF TRUE \in matches THEN {fatJet} ELSE {})
                 \cup (IF FALSE \in matches THEN rest ELSE {})

\* the object after the accessors SelectFatJet calls have stored their values:
\* the fat jets when there is a b-jet pair, and, when a fat jet is examined, the
\* Higgs-bb candidate with the jets it is built from
AfterSelectFatJet(I, mass_cut) ==
    LET F == IF ~HasBjetPair(I) \/ Filled(I, "fatJets") THEN I
             ELSE [I EXCEPT !.fatJets = << MaterializeFatJets(I) >>]
        examined == /\ HasBjetPair(I)
                    /\ \E k \in 1..Len(F.fatJets[1]) : FatJetExamined(F.fatJets[1][k], mass_cut)
        J == IF examined /\ ~Filled(F, "higgs_bb") THEN WithJets(F) ELSE F
    IN IF examined /\ ~Filled(J, "higgs_bb") /\ PairInJets(J, J.selected_signal_jets.selectedBjetPair)
       THEN [J EXCEPT !.higgs_bb = << MakeHiggsBB(J) >>]
       ELSE J

\* the outcomes of SelectFatJet on the object after its accessors have run
SelectFatJet(H, mass_cut, deltaR_subjet_cut) ==
    IF ~HasBjetPair(H) THEN {Ok(NoFatJet)}
    ELSE IF (\E k \in 1..Len(H.fatJets[1]) : FatJetExamined(H.fatJets[1][k], mass_cut))
            /\ ~Filled(H, "higgs_bb")
         THEN {Err("out_of_range")}
         ELSE {Ok(r) : r \in SelectFatJetFrom(H, mass_cut, deltaR_subjet_cut, 1)}

\* the cuts of the calls: (mass_cut, deltaR_subjet_cut)
SelectFatJetArgs == {Arg(30, 4), Arg(30, 1), Arg(121, 4)}

CallSelectFatJet(t) ==
    \E i \in 1..ninst, a \in SelectFatJetArgs :
        LET H == AfterSelectFatJet(inst[i], a.a)
            filled == {f \in {"fatJets", "jets", "higgs_bb"} : Filled(H, f) /\ ~Filled(inst[i], f)}
        IN /\ CanCall(t)
           /\ CanLock(inst[i].mutex, t)
           /\ filled # {} => CanUpdate
           /\ inst' = [inst EXCEPT ![i] = H]
           /\ ncomp' = [ncomp EXCEPT ![i] = [f \in MemoSlots |->
                                               IF f \in filled THEN @[f] + 1 ELSE @[f]]]
           /\ filler' = IF filled # {} THEN [filler EXCEPT ![i] = t] ELSE filler
           /\ nupd' = IF filled # {} THEN nupd + 1 ELSE nupd
           /\ \E r \in SelectFatJet(H, a.a, a.b) :
                 OneStep(t, "SelectFatJet", i, a, r.kind, r.val)
           /\ UNCHANGED << ninst, owner, corrCalls, fitCalls >>

MaxRankJets == 3

\* the numbers of the jet lists of at most MaxRankJets jets
RankCodes == 0..(SelCount(MaxRankJets) - 1)

\* an object constructed for one of these records
InitRank ==
    /\ \E event \in {SelEvent(c) : c \in RankCodes} \cup {EventForward} :
          inst = [i \in Inst |-> IF i = 1 THEN Construct(event, "DeepCSV", "none", 1)
                                 ELSE NoInstance]
    /\ ninst = 1
    /\ owner = [m \in Inst |-> 0]
    /\ th = [t \in Threads |-> Idle]
    /\ ncomp = [i \in Inst |-> [f \in MemoSlots |-> 0]]
    /\ filler = [i \in Inst |-> 0]
    /\ corrCalls = << >>
    /\ fitCalls = << >>
    /\ nupd = 0
    /\ InitTupleStore

NextRank ==
    \E t \in {1} :
        \/ CallSelectJets(t)
        \/ CallGetHT(t)
        \/ CallSetJets(t)
        \/ Ack(t)

SpecRank == InitRank /\ [][NextRank]_vars

\* an object constructed for a record with one of the fat-jet lists
InitFat ==
    /\ \E base \in {EventPairVBF, EventOneJet}, c \in FatCodes :
          inst = [i \in Inst |-> IF i = 1 THEN Construct(FatEvent(base, c), "DeepCSV", "none", 1)
                                 ELSE NoInstance]
    /\ ninst = 1
    /\ owner = [m \in Inst |-> 0]
    /\ th = [t \in Threads |-> Idle]
    /\ ncomp = [i \in Inst |-> [f \in MemoSlots |-> 0]]
    /\ filler = [i \in Inst |-> 0]
    /\ corrCalls = << >>
    /\ fitCalls = << >>
    /\ nupd = 0
    /\ InitTupleStore

NextFat ==
    \E t \in {1} :
        \/ CallSelectFatJet(t)
        \/ CallSetJets(t)
        \/ Ack(t)

SpecFat == InitFat /\ [][NextFat]_vars

(***************************************************************************)
(* The jet selections applied to every event record of SelCodes.           *)
(***************************************************************************)
\* an object constructed for one of the selection events
InitSel ==
    /\ \E c \in SelCodes :
          inst = [i \in Inst |-> IF i = 1 THEN Construct(SelEvent(c), "DeepCSV", "none", 1)
                                 ELSE NoInstance]
    /\ ninst = 1
    /\ owner = [m \in Inst |-> 0]
    /\ th = [t \in Threads |-> Idle]
    /\ ncomp = [i \in Inst |-> [f \in MemoSlots |-> 0]]
    /\ filler = [i \in Inst |-> 0]
    /\ corrCalls = << >>
    /\ fitCalls = << >>
    /\ nupd = 0
    /\ InitTupleStore

NextSel ==
    \E t \in {1} :
        \/ CallSelectSignalJets(t)
        \/ Ack(t)

SpecSel == InitSel /\ [][NextSel]_vars

(***************************************************************************)
(* TupleStore (Production/src/BaseTupleProducer.cc): the event tuple that  *)
(* the producers of a job share, created for its first holder and written  *)
(* and dropped when its last holder releases it.  A tuple is modelled by    *)
(* what was done to it so far: << >> when created, then "Write", "reset".   *)
(***************************************************************************)
\* ++ and -- of a std::atomic<int>, which wraps at the ends of its range
Increment(n) == IF n = 2147483647 THEN (-2147483647) - 1 ELSE n + 1

Decrement(n) == IF n = (-2147483647) - 1 THEN 2147483647 ELSE n - 1

\* the statics of TupleStore and the tuples created so far
StoreState ==
    [tuple_counter |-> tuple_counter, eventTuple_ptr |-> eventTuple_ptr, tuples |-> tuples]

\* ntuple::CreateEventTuple: a new tuple, to which nothing was done yet; the
\* shared pointer receives it
CreateEventTuple(S) ==
    [S EXCEPT !.tuples = Append(@, << >>), !.eventTuple_ptr = Len(S.tuples) + 1]

\* (*eventTuple_ptr)->Write()
Write(S) ==
    IF S.eventTuple_ptr \in DOMAIN S.tuples
    THEN [S EXCEPT !.tuples[S.eventTuple_ptr] = Append(@, "Write")]
    ELSE S

\* eventTuple_ptr->reset(): the pointer was the only owner of its tuple
Reset(S) ==
    IF S.eventTuple_ptr \in DOMAIN S.tuples
    THEN [S EXCEPT !.tuples[S.eventTuple_ptr] = Append(@, "reset"),
                   !.eventTuple_ptr = NoTuple]
    ELSE S

\* a GetTuple that makes a new tuple for every caller
GetTuple_AlwaysCreate(S) ==
    [CreateEventTuple(S) EXCEPT !.tuple_counter = Increment(@)]

\* TupleStore::GetTuple under its lock: the tuple is created when the counter
\* is zero, the counter is incremented
GetTuple(S) ==
    LET C == IF S.tuple_counter = 0 THEN CreateEventTuple(S) ELSE S
    IN [C EXCEPT !.tuple_counter = Increment(@)]

\* a ReleaseEventTuple that never refuses
ReleaseThrows_Never(S) == FALSE

\* TupleStore::ReleaseEventTuple: "if(tuple_counter==0) throw"
ReleaseThrows(S) == S.tuple_counter = 0

\* a ReleaseEventTuple that writes the tuple at every release
ReleaseEventTuple_WriteEach(S) ==
    LET D == Write([S EXCEPT !.tuple_counter = Decrement(@)])
    IN IF D.tuple_counter = 0 THEN Reset(D) ELSE D

\* TupleStore::ReleaseEventTuple past its test: the counter is decremented;
\* when it comes to zero the tuple is written and the pointer is reset
ReleaseEventTuple(S) ==
    LET D == [S EXCEPT !.tuple_counter = Decrement(@)]
    IN IF D.tuple_counter = 0 THEN Reset(Write(D)) ELSE D

StoreOps == {"GetTuple", "ReleaseEventTuple"}

\* one more call of TupleStore may be made
CanCallStore == Len(tupleCalls) < MaxTupleCalls

\* std::lock_guard<Mutex> lock(mutex): producer p calls GetTuple (from its
\* constructor) or ReleaseEventTuple (from endJob) and holds the mutex
LockStore(p) ==
    \E op \in StoreOps :
        /\ producer[p].pc = "idle"
        /\ CanCallStore
        /\ storeMutex = 0
        /\ storeMutex' = p
        /\ producer' = [producer EXCEPT ![p] = [pc |-> "in", op |-> op, ret |-> NoRet]]
        /\ UNCHANGED << tuple_counter, eventTuple_ptr, tuples, tupleCalls >>
        /\ UNCHANGED eventInfo

\* the call of producer p ends with the statics S and the outcome ret; the
\* lock_guard frees the mutex, on a throw as well
LeaveStore(p, S, ret) ==
    /\ tuple_counter' = S.tuple_counter
    /\ eventTuple_ptr' = S.eventTuple_ptr
    /\ tuples' = S.tuples
    /\ storeMutex' = 0
    /\ producer' = [producer EXCEPT ![p] = [@ EXCEPT !.pc = "idle", !.ret = ret]]
    /\ tupleCalls' = Append(tupleCalls, [op |-> producer[p].op, found |-> tuple_counter,
                                         ret |-> ret])
    /\ UNCHANGED eventInfo

\* the body of GetTuple runs; it returns **eventTuple_ptr
CallGetTuple(p) ==
    /\ producer[p].pc = "in"
    /\ producer[p].op = "GetTuple"
    /\ LET S == GetTuple(StoreState)
       IN LeaveStore(p, S, Ok(S.eventTuple_ptr))

\* the body of ReleaseEventTuple runs
CallReleaseEventTuple(p) ==
    /\ producer[p].pc = "in"
    /\ producer[p].op = "ReleaseEventTuple"
    /\ IF ReleaseThrows(StoreState)
       THEN LeaveStore(p, StoreState, Err("Tuple Counter equals zero."))
       ELSE LeaveStore(p, ReleaseEventTuple(StoreState), Ok(0))

\* a job in which no EventInfoBase object was constructed yet
InitStore ==
    /\ inst = [i \in Inst |-> NoInstance]
    /\ ninst = 0
    /\ owner = [m \in Inst |-> 0]
    /\ th = [t \in Threads |-> Idle]
    /\ ncomp = [i \in Inst |-> [f \in MemoSlots |-> 0]]
    /\ filler = [i \in Inst |-> 0]
    /\ corrCalls = << >>
    /\ fitCalls = << >>
    /\ nupd = 0
    /\ InitTupleStore

NextStore ==
    \E p \in Producers :
        \/ LockStore(p)
        \/ CallGetTuple(p)
        \/ CallReleaseEventTuple(p)

SpecStore == InitStore /\ [][NextStore]_vars

(***************************************************************************)
(* Properties.                                                             *)
(***************************************************************************)
\* the slot a plain accessor returns
SlotOf(op) ==
    CASE op = "GetFirstLeg" -> "leg1"
      [] op = "GetSecondLeg" -> "leg2"
      [] op = "GetJets" -> "jets"
      [] op = "GetFatJets" -> "fatJets"
      [] op = "GetMET" -> "met"
      [] op = "GetHiggsBB" -> "higgs_bb"
      [] op = "GetMT2" -> "mt2"
      [] op = "GetKinFitResults" -> "kinfit_results"

\* thread t has just left a call of op on object i with a value
Returned(t, op, i) ==
    /\ th[t].pc = "done"
    /\ th[t].op = op
    /\ th[t].inst = i
    /\ th[t].ret.kind = "ok"

\* C1: under any interleaving of accessor calls by several threads, the
\* computation of each memoized slot of an object runs at most once, and a
\* call that returns the slot returns the one value stored in it.
C1_ComputedOnce ==
    /\ \A i \in 1..ninst, f \in MemoSlots :
          /\ ncomp[i][f] <= 1
          /\ Filled(inst[i], f) <=> ncomp[i][f] = 1
    /\ \A t \in Threads, op \in PlainOps, i \in 1..ninst :
          Returned(t, op, i) =>
              /\ Filled(inst[i], SlotOf(op))
              /\ th[t].ret.val = inst[i][SlotOf(op)][1]

\* a thread has been returned the Higgs candidate that the only updating
\* call so far, made by another thread, computed
C1_Witness ==
    \E t, u \in Threads :
        /\ t # u
        /\ Returned(t, "GetHiggsBB", 1)
        /\ filler[1] = u
        /\ nupd = 1
        /\ ncomp[1]["higgs_bb"] = 1
        /\ ncomp[1]["jets"] = 1

\* thread t has just left a call of op on object i, with a value or an error
Left(t, op, i) ==
    /\ th[t].pc = "done"
    /\ th[t].op = op
    /\ th[t].inst = i

\* the step is one of a call on object i other than ApplyShift
StepOn(i) ==
    \E t \in Threads :
        /\ th'[t] # th[t]
        /\ th'[t].inst = i
        /\ th'[t].op # "ApplyShift"

\* C2: shift isolation.  The cache slots of an object change only in steps of
\* calls made on that very object, and never in a step of ApplyShift: neither
\* ApplyShift on an object nor any call on the shifted copy changes a slot of
\* the original, so the original's accessors keep returning the same values.
C2_ShiftIsolation ==
    [][\A i \in 1..ninst : Cache(inst'[i]) # Cache(inst[i]) => StepOn(i)]_vars

\* an accessor has filled slots of the shifted copy of an object whose own
\* slots are filled with other values
C2_Witness ==
    \E t \in Threads :
        /\ Returned(t, "GetMT2", 2)
        /\ Len(corrCalls) = 1
        /\ corrCalls[1].src = 1
        /\ Filled(inst[1], "mt2")
        /\ Filled(inst[1], "higgs_bb")
        /\ inst[2].mt2 # inst[1].mt2
        /\ inst[2].jets # inst[1].jets

C4_DerivedFromCurrentJets ==
    \A t \in Threads, i \in 1..ninst :
        Returned(t, "GetHiggsBB", i) =>
            /\ Filled(inst[i], "jets")
            /\ PairInJets(inst[i], inst[i].selected_signal_jets.selectedBjetPair)
            /\ th[t].ret.val = MakeHiggsBB(inst[i])

\* the members of an object that no operation changes
Immutable(I) ==
    [ event |-> I.event,
      selected_signal_jets |-> I.selected_signal_jets,
      period |-> I.period,
      jet_ordering |-> I.jet_ordering ]

\* C5: the object ApplyShift returns has the record, the signal-jet selection,
\* the period and the ordering policy of its source, also where the selection
\* made on the corrected jets would differ; and no step changes these members
\* of an existing object.
C5_SelectionCarriedOver ==
    [][/\ \A i \in 1..ninst : Immutable(inst'[i]) = Immutable(inst[i])
       /\ \A t \in Threads :
             (th'[t] # th[t] /\ th'[t].op = "ApplyShift" /\ th'[t].ret.kind = "ok") =>
                 Immutable(inst'[th'[t].ret.val]) = Immutable(inst[th'[t].inst])]_vars

\* ApplyShift has returned a copy without b-jet pair whose corrected jets
\* would give a pair, and the jets of the source were replaced afterwards
C5_Witness ==
    \E t \in Threads :
        /\ Returned(t, "SetJets", 1)
        /\ ninst = 2
        /\ ~HasBjetPair(inst[2])
        /\ Immutable(inst[2]) = Immutable(inst[1])
        /\ HasBjetPairN(SelectSignalJets(
                            [Ev(inst[2]) EXCEPT
                                !.jets_p4 = [k \in 1..Len(inst[2].jets[1]) |->
                                                inst[2].jets[1][k].p4]],
                            inst[2].jet_ordering),
                        GetNJets(inst[2]))

\* what GetJets / GetMET return on an object as it is
CurrentJets(I) == IF Filled(I, "jets") THEN I.jets[1] ELSE MaterializeJets(I)

CurrentMET(I) == IF Filled(I, "met") THEN I.met[1].p4 ELSE MakeMET(I).p4

\* the corrector was invoked once per object ApplyShift returned, and the
\* object just returned holds the outputs of the last invocation
CorrectorOnce(t, i) ==
    LET c == corrCalls[Len(corrCalls)]
        r == JecApplyShift(c.jets, c.source, c.scale, c.other_jets_p4, c.met_p4)
    IN /\ Len(corrCalls) = ninst - 1
       /\ c.src = i
       /\ c.result = th[t].ret.val
       /\ c.source = th[t].arg.a
       /\ c.scale = th[t].arg.b
       /\ c.other_jets_p4 = Ev(inst[i]).other_jets_p4
       /\ CurrentJets(inst[c.result]) = r.jets
       /\ CurrentMET(inst[c.result]) = r.met_p4

C7_ShiftNeedsSummary ==
    [][\A t \in Threads :
          (th'[t] # th[t] /\ th'[t].pc = "done") =>
              /\ (th'[t].op = "ApplyShift" /\ inst[th'[t].inst].summaryInfo # "jec") =>
                    /\ th'[t].ret.kind = "error"
                    /\ UNCHANGED << inst, ninst, corrCalls >>
              /\ (th'[t].op = "GetSummaryInfo" /\ inst[th'[t].inst].summaryInfo = "none") =>
                    /\ th'[t].ret.kind = "error"
                    /\ UNCHANGED << inst, ninst, corrCalls >>]_vars

\* ApplyShift has failed on an object without run summary that has cached slots
C7_Witness ==
    \E t \in Threads :
        /\ Left(t, "ApplyShift", 1)
        /\ th[t].ret = Err("SummaryInfo was not provided for this event.")
        /\ inst[1].summaryInfo = "none"
        /\ Filled(inst[1], "higgs_bb")
        /\ ninst = 1
        /\ corrCalls = << >>

\* the accessors that use the b-jet pair
NeedBjetPair == {"GetHiggsBB", "GetKinFitResults", "GetMT2", "GetResonanceMomentum", "GetBJet"}

\* C8: on an object without b-jet pair every call of GetHiggsBB,
\* GetKinFitResults, GetMT2, GetResonanceMomentum and GetBJet ends with an
\* error, none of them comes to compute the Higgs candidate, the fit or MT2,
\* and these three slots stay empty; GetVBFJet ends with an error on an object
\* without VBF pair.
C8_NoPairFails ==
    \A i \in 1..ninst :
        /\ ~HasBjetPair(inst[i]) =>
              /\ \A f \in {"higgs_bb", "kinfit_results", "mt2"} : ~Filled(inst[i], f)
              /\ \A t \in Threads :
                    (th[t].inst = i /\ th[t].op \in NeedBjetPair) =>
                        /\ th[t].pc = "fill" => th[t].fld \in {"leg1", "leg2", "met"}
                        /\ th[t].pc = "done" => th[t].ret.kind = "error"
        /\ ~HasVBFjetPair(inst[i]) =>
              \A t \in Threads : Left(t, "GetVBFJet", i) => th[t].ret.kind = "error"

\* GetMT2 has failed on an object without b-jet pair whose legs and jets are
\* already cached by earlier calls
C8_Witness ==
    \E t \in Threads :
        /\ Left(t, "GetMT2", 1)
        /\ th[t].ret = Err("Can't create H->bb candidate.")
        /\ ~HasBjetPair(inst[1])
        /\ Filled(inst[1], "leg1")
        /\ Filled(inst[1], "leg2")
        /\ Filled(inst[1], "jets")

\* the pair an indexed accessor reads
PairOf(op, I) ==
    IF op = "GetBJet" THEN I.selected_signal_jets.selectedBjetPair
    ELSE I.selected_signal_jets.selectedVBFjetPair

HasPair(op, I) == IF op = "GetBJet" THEN HasBjetPair(I) ELSE HasVBFjetPair(I)

\* C9 as stated: GetBJet(k) and GetVBFJet(k) with k outside {1,2} end with an
\* error on every object, and so does GetLegIndex(k); with the pair defined,
\* GetBJet(1) and GetBJet(2) (GetVBFJet alike) return the entry of the
\* object's current jet collection at the first and the second index of the
\* pair.
C9_IndexedJetsReturn ==
    \A t \in Threads, i \in 1..ninst :
        /\ \A op \in IndexedOps :
              Left(t, op, i) =>
                  LET k == th[t].arg.a
                      pos == IF k = 1 THEN PairOf(op, inst[i]).first
                             ELSE PairOf(op, inst[i]).second
                  IN /\ k \notin {1, 2} => th[t].ret.kind = "error"
                     /\ (k \in {1, 2} /\ HasPair(op, inst[i])) =>
                           /\ Filled(inst[i], "jets")
                           /\ InRange(inst[i].jets[1], pos)
                           /\ th[t].ret = Ok(At(inst[i].jets[1], pos))
        /\ (Left(t, "GetLegIndex", i) /\ th[t].arg.a \notin {1, 2}) =>
              th[t].ret.kind = "error"

\* C9, amended: as above, but with the pair defined GetBJet(1) and GetBJet(2)
\* (GetVBFJet alike) return the entry of the current jet collection at the
\* index of the pair only where the collection has such an entry; on a
\* collection replaced by a shorter one the call ends with an out-of-range
\* error instead.
C9_IndexedJets ==
    \A t \in Threads, i \in 1..ninst :
        /\ \A op \in IndexedOps :
              Left(t, op, i) =>
                  LET k == th[t].arg.a
                      pos == IF k = 1 THEN PairOf(op, inst[i]).first
                             ELSE PairOf(op, inst[i]).second
                  IN /\ k \notin {1, 2} => th[t].ret.kind = "error"
                     /\ (k \in {1, 2} /\ HasPair(op, inst[i])) =>
                           /\ Filled(inst[i], "jets")
                           /\ IF InRange(inst[i].jets[1], pos)
                              THEN th[t].ret = Ok(At(inst[i].jets[1], pos))
                              ELSE th[t].ret = Err("out_of_range")
        /\ (Left(t, "GetLegIndex", i) /\ th[t].arg.a \notin {1, 2}) =>
              th[t].ret.kind = "error"

\* GetBJet(2) has ended with an out-of-range error on an object with b-jet
\* pair whose jets were replaced by a collection of one entry
C9_Witness ==
    \E t \in Threads :
        /\ Left(t, "GetBJet", 1)
        /\ th[t].arg.a = 2
        /\ HasBjetPair(inst[1])
        /\ Len(inst[1].jets[1]) = 1
        /\ inst[1].selected_signal_jets.selectedBjetPair.second = 1
        /\ th[t].ret = Err("out_of_range")

\* C10: GetResonanceMomentum(useSVfit = true, addMET = true) ends at once with
\* the error of the conflicting options on every object, with or without
\* b-jet pair: the call never comes to fill a slot and no object changes.
C10_ConflictFirst ==
    [][\A t \in Threads :
          (/\ th'[t] # th[t]
           /\ th'[t].op = "GetResonanceMomentum"
           /\ th'[t].arg = Arg(TRUE, TRUE)) =>
              /\ th'[t].pc = "done"
              /\ th'[t].ret = Err("Can't add MET and with SVfit applied.")
              /\ UNCHANGED << inst, ncomp >>]_vars

\* the conflicting request has been rejected on an object without b-jet pair
\* and with empty cache
C10_Witness ==
    \E t \in Threads :
        /\ Left(t, "GetResonanceMomentum", 1)
        /\ th[t].arg = Arg(TRUE, TRUE)
        /\ th[t].ret = Err("Can't add MET and with SVfit applied.")
        /\ ~HasBjetPair(inst[1])
        /\ \A f \in Slots : ~Filled(inst[1], f)

(***************************************************************************)
(* SelectSignalJets as a function of the event record and the ordering     *)
(* policy (SpecSel).                                                       *)
(***************************************************************************)
\* thread t has just received the outcome of a SelectSignalJets call
SelCall(t) == th[t].pc = "done" /\ th[t].op = "SelectSignalJets"

\* the record, the ordering policy and the selection of that call
SelEv(t) == Ev(inst[th[t].inst])

SelOrd(t) == th[t].arg.a

SelRet(t) == th[t].ret.val

\* the values an index of a selection may take for n jets
JetIndexValues(n) == (0..(n - 1)) \cup {UndefinedJetIndex}

\* C11: SelectSignalJets returns a selection for every jet list, the empty
\* one and those where no jet passes any cut included: it never fails, each
\* index of the selection is a position of the jet array or the undefined
\* marker, and HasBjetPair / HasVBFjetPair are true exactly when both indices
\* of their pair are positions of the jet array.
C11_SelectionTotal ==
    \A t \in Threads :
        SelCall(t) =>
            LET sel == SelRet(t)
                jets == SelEv(t).jets_p4
                n == Len(jets)
            IN /\ th[t].ret.kind = "ok"
               /\ sel.selectedBjetPair.first \in JetIndexValues(n)
               /\ sel.selectedBjetPair.second \in JetIndexValues(n)
               /\ sel.selectedVBFjetPair.first \in JetIndexValues(n)
               /\ sel.selectedVBFjetPair.second \in JetIndexValues(n)
               /\ HasBjetPairN(sel, n) <=>
                     (/\ InRange(jets, sel.selectedBjetPair.first)
                      /\ InRange(jets, sel.selectedBjetPair.second))
               /\ HasVBFPairN(sel, n) <=>
                     (/\ InRange(jets, sel.selectedVBFjetPair.first)
                      /\ InRange(jets, sel.selectedVBFjetPair.second))

\* the selection of an empty jet list: both pairs undefined
C11_Witness ==
    \E t \in Threads :
        /\ SelCall(t)
        /\ Len(SelEv(t).jets_p4) = 0
        /\ SelRet(t) = NoSelection
        /\ ~HasBjetPairN(SelRet(t), 0)
        /\ ~HasVBFPairN(SelRet(t), 0)

\* C12: in every selection returned, a defined b-jet pair consists of two
\* distinct indices that are positions of the jet array, and so does a
\* defined VBF pair.
C12_DefinedPairsDistinct ==
    \A t \in Threads :
        SelCall(t) =>
            LET sel == SelRet(t)
                jets == SelEv(t).jets_p4
            IN /\ HasBjetPairN(sel, Len(jets)) =>
                     /\ sel.selectedBjetPair.first # sel.selectedBjetPair.second
                     /\ InRange(jets, sel.selectedBjetPair.first)
                     /\ InRange(jets, sel.selectedBjetPair.second)
               /\ HasVBFPairN(sel, Len(jets)) =>
                     /\ sel.selectedVBFjetPair.first # sel.selectedVBFjetPair.second
                     /\ InRange(jets, sel.selectedVBFjetPair.first)
                     /\ InRange(jets, sel.selectedVBFjetPair.second)

\* a selection with both pairs defined, the second b-jet found by the
\* fallback
C12_Witness ==
    \E t \in Threads :
        /\ SelCall(t)
        /\ HasBjetPairN(SelRet(t), Len(SelEv(t).jets_p4))
        /\ HasVBFPairN(SelRet(t), Len(SelEv(t).jets_p4))
        /\ ~HasBjetPairN(AfterVBFScan(SelEv(t), SelOrd(t)), Len(SelEv(t).jets_p4))

\* C13: in every selection returned each pair is fully defined or fully
\* undefined: never is one index of the b-jet pair, or of the VBF pair, a
\* position of the jet array while the other is the undefined marker.
C13_NoPartialPair ==
    \A t \in Threads :
        SelCall(t) =>
            LET sel == SelRet(t)
                jets == SelEv(t).jets_p4
            IN /\ InRange(jets, sel.selectedBjetPair.first)
                     <=> InRange(jets, sel.selectedBjetPair.second)
               /\ InRange(jets, sel.selectedVBFjetPair.first)
                     <=> InRange(jets, sel.selectedVBFjetPair.second)

\* the place of jet index in a ranked candidate list (0 if absent)
PlaceOf(L, index) ==
    IF \E k \in 1..Len(L) : L[k].index = index
    THEN CHOOSE k \in 1..Len(L) : L[k].index = index
    ELSE 0

\* (a, b) comes before (c, d) in the order of the scan: outer place
\* ascending, inner place ascending
ScanBefore(a, b, c, d) == a < c \/ (a = c /\ b <= d)

\* C14: a defined VBF pair is made of two candidates of the ranked VBF list
\* L_v, its invariant mass is at least that of every two-element combination
\* of L_v, and among the combinations of that greatest mass it is the first
\* one in the order of the scan.
C14_VBFMaximal ==
    \A t \in Threads :
        (SelCall(t) /\ HasVBFPairN(SelRet(t), Len(SelEv(t).jets_p4))) =>
            LET L == VbfJetsOrdered(SelEv(t), SelOrd(t))
                n == PlaceOf(L, SelRet(t).selectedVBFjetPair.first)
                h == PlaceOf(L, SelRet(t).selectedVBFjetPair.second)
            IN /\ 1 <= n /\ n < h
               /\ \A a \in 1..Len(L), b \in 1..Len(L) :
                     a < b =>
                        /\ PairMass(L[a].p4, L[b].p4) <= PairMass(L[n].p4, L[h].p4)
                        /\ PairMass(L[a].p4, L[b].p4) = PairMass(L[n].p4, L[h].p4)
                              => ScanBefore(n, h, a, b)

\* a defined VBF pair chosen among three or more candidates, two
\* combinations sharing the greatest mass
C14_Witness ==
    \E t \in Threads :
        /\ SelCall(t)
        /\ HasVBFPairN(SelRet(t), Len(SelEv(t).jets_p4))
        /\ LET L == VbfJetsOrdered(SelEv(t), SelOrd(t))
               n == PlaceOf(L, SelRet(t).selectedVBFjetPair.first)
               h == PlaceOf(L, SelRet(t).selectedVBFjetPair.second)
           IN /\ Len(L) >= 3
              /\ \E a \in 1..Len(L), b \in 1..Len(L) :
                    /\ a < b
                    /\ << a, b >> # << n, h >>
                    /\ PairMass(L[a].p4, L[b].p4) = PairMass(L[n].p4, L[h].p4)
                    /\ PairMass(L[a].p4, L[b].p4) > 0

\* the jets of a record that are candidates (noise veto and pile-up id
\* passed) within the given thresholds
PassingJets(event, pt_cut, eta_cut) ==
    { n \in 0..(Len(event.jets_p4) - 1) :
        /\ PassEcalNoiceVetoJets(At(event.jets_p4, n), event.period, At(event.jets_pu_id, n))
        /\ PuBit2(At(event.jets_pu_id, n))
        /\ At(event.jets_p4, n).pt > pt_cut
        /\ Abs(At(event.jets_p4, n).eta) < eta_cut }

\* C15: when fewer than two candidates pass the b-tag thresholds, the
\* selection returned has an undefined second b-jet and an undefined VBF
\* pair, also when two or more candidates pass the VBF thresholds.
C15_FewBjetsNoVBF ==
    \A t \in Threads :
        (SelCall(t) /\ Cardinality(PassingJets(SelEv(t), bjet_pt_cut, bjet_eta_cut)) < 2) =>
            /\ SelRet(t).selectedBjetPair.second = UndefinedJetIndex
            /\ SelRet(t).selectedVBFjetPair = UndefinedJetPair

\* one candidate passes the b-tag thresholds, two others pass the VBF
\* thresholds and were paired by the scan
C15_Witness ==
    \E t \in Threads :
        /\ SelCall(t)
        /\ Cardinality(PassingJets(SelEv(t), bjet_pt_cut, bjet_eta_cut)) = 1
        /\ Cardinality(PassingJets(SelEv(t), vbf_pt_cut, vbf_eta_cut)
                          \ PassingJets(SelEv(t), bjet_pt_cut, bjet_eta_cut)) >= 2
        /\ HasVBFPairN(AfterVBFScan(SelEv(t), SelOrd(t)), Len(SelEv(t).jets_p4))
        /\ SelRet(t).selectedBjetPair.second = UndefinedJetIndex
        /\ SelRet(t).selectedVBFjetPair = UndefinedJetPair

\* C16: the selection returned has a defined b-jet pair exactly when two or
\* more candidates pass the b-tag thresholds; when the second-ranked
\* candidate fails the medium working point the fallback still gives a
\* defined second b-jet.
C16_PairIffTwoCandidates ==
    \A t \in Threads :
        SelCall(t) =>
            (HasBjetPairN(SelRet(t), Len(SelEv(t).jets_p4))
                <=> Cardinality(PassingJets(SelEv(t), bjet_pt_cut, bjet_eta_cut)) >= 2)

\* the second-ranked candidate fails the medium working point and the
\* selection returned has a b-jet pair
C16_Witness ==
    \E t \in Threads :
        /\ SelCall(t)
        /\ Len(BjetsOrdered(SelEv(t), SelOrd(t))) >= 2
        /\ BTag(SelEv(t), SelOrd(t), BjetsOrdered(SelEv(t), SelOrd(t))[2].index) <= MediumWP
        /\ AfterBjets(SelEv(t), SelOrd(t)).selectedBjetPair.second = UndefinedJetIndex
        /\ HasBjetPairN(SelRet(t), Len(SelEv(t).jets_p4))

\* the ranked b-tag list of the call has two entries or more and its second
\* entry passes the medium working point
SecondPassesMedium(t) ==
    /\ Len(BjetsOrdered(SelEv(t), SelOrd(t))) >= 2
    /\ BTag(SelEv(t), SelOrd(t), BjetsOrdered(SelEv(t), SelOrd(t))[2].index) > MediumWP

\* the candidates within the VBF thresholds other than the two leading
\* entries of the ranked b-tag list
RemainingVBF(t) ==
    PassingJets(SelEv(t), vbf_pt_cut, vbf_eta_cut)
        \ { BjetsOrdered(SelEv(t), SelOrd(t))[1].index,
            BjetsOrdered(SelEv(t), SelOrd(t))[2].index }

\* C17: when the ranked b-tag list has two entries or more and the second
\* one passes the medium working point, the b-jet pair is (first entry,
\* second entry) and the fallback does not run; the VBF pair is made of
\* candidates other than these two, and it is undefined when fewer than two
\* of the remaining candidates pass the VBF thresholds.
C17_MediumSecondTaken ==
    \A t \in Threads :
        (SelCall(t) /\ SecondPassesMedium(t)) =>
            LET L_b == BjetsOrdered(SelEv(t), SelOrd(t))
                sel == SelRet(t)
            IN /\ sel.selectedBjetPair = [first |-> L_b[1].index, second |-> L_b[2].index]
               /\ sel = AfterVBFScan(SelEv(t), SelOrd(t))
               /\ HasVBFPairN(sel, Len(SelEv(t).jets_p4)) =>
                     /\ sel.selectedVBFjetPair.first \in RemainingVBF(t)
                     /\ sel.selectedVBFjetPair.second \in RemainingVBF(t)
               /\ Cardinality(RemainingVBF(t)) < 2 =>
                     sel.selectedVBFjetPair = UndefinedJetPair

\* both b-jets pass the VBF thresholds as well, and the VBF pair is made of
\* two other jets
C17_Witness ==
    \E t \in Threads :
        /\ SelCall(t)
        /\ SecondPassesMedium(t)
        /\ SelRet(t).selectedBjetPair.first \in PassingJets(SelEv(t), vbf_pt_cut, vbf_eta_cut)
        /\ SelRet(t).selectedBjetPair.second \in PassingJets(SelEv(t), vbf_pt_cut, vbf_eta_cut)
        /\ HasVBFPairN(SelRet(t), Len(SelEv(t).jets_p4))
        /\ Cardinality(RemainingVBF(t)) >= 3

RankCall(t) == th[t].pc = "done" /\ th[t].op = "SelectJets" /\ th[t].ret.kind = "ok"

\* C19: every jet SelectJets returns passes all the filters supplied (noise
\* veto, pt and eta cuts, low-eta cut, the pile-up id bit when applyPu is
\* set, the medium b-tag when passBtag is set), the jets returned are in
\* descending order of the tag score of the ordering policy given, no jet
\* whose index is in the exclusion set is returned, and no jet is returned
\* twice.
C19_SelectJetsRanked ==
    \A t \in Threads :
        RankCall(t) =>
            LET I == inst[th[t].inst]
                a == th[t].arg.a
                r == th[t].ret.val
                score(h) == At(IF a.jet_ordering = "DeepFlavour"
                               THEN Ev(I).jets_deepflavour
                               ELSE Ev(I).jets_deepcsv, r[h].index)
            IN /\ \A h \in 1..Len(r) :
                     /\ InRange(I.jets[1], r[h].index)
                     /\ r[h] = At(I.jets[1], r[h].index)
                     /\ PassEcalNoiceVetoJets(r[h].p4, I.period,
                                              At(Ev(I).jets_pu_id, r[h].index))
                     /\ r[h].p4.pt > a.pt_cut
                     /\ Abs(r[h].p4.eta) < a.eta_cut
                     /\ Abs(r[h].p4.eta) >= a.low_eta_cut
                     /\ a.applyPu => PuBit2(At(Ev(I).jets_pu_id, r[h].index))
                     /\ a.passBtag => score(h) > MediumWP
                     /\ r[h].index \notin a.jet_to_exclude_indexes
               /\ \A h \in 1..(Len(r) - 1) : score(h) >= score(h + 1)
               /\ \A h, k \in 1..Len(r) : h # k => r[h].index # r[k].index

\* two jets returned out of their order in the jet array, a third one
\* dropped only because its index is in the exclusion set
C19_Witness ==
    \E t \in Threads :
        /\ RankCall(t)
        /\ Len(th[t].ret.val) = 2
        /\ th[t].ret.val[1].index > th[t].ret.val[2].index
        /\ LET I == inst[th[t].inst]
               a == th[t].arg.a
           IN \E n \in a.jet_to_exclude_indexes :
                 /\ InRange(I.jets[1], n)
                 /\ SelectJetsKeeps(I, [a EXCEPT !.jet_to_exclude_indexes = {}], n)
                 /\ At(I.jets[1], n).p4.pt > a.pt_cut
                 /\ Abs(At(I.jets[1], n).p4.eta) < a.eta_cut

(***************************************************************************)
(* Successive calls of one memoized accessor (Spec).                       *)
(***************************************************************************)
\* C20: on one object, two successive calls of the same memoized accessor
\* with no SetJets, SetMetMomentum or SetMvaScore call in between have the
\* same outcome: a caller that calls the accessor it has just left once
\* more receives what the first call gave.
C20_Idempotent ==
    [][ \A t \in Threads :
          (/\ th[t].pc = "done"
           /\ th[t].op \in MemoOps
           /\ th'[t].pc = "done"
           /\ th'[t].op = th[t].op
           /\ th'[t].inst = th[t].inst)
          => th'[t].ret = th[t].ret ]_vars

(***************************************************************************)
(* The kinematic fit (Spec).                                               *)
(***************************************************************************)
\* the invocations of the solver made for object i
FitCallsOf(i) == SelectSeq(fitCalls, LAMBDA c : c.inst = i)

\* the entry of the side table at position k, with the p-value of its chi2
KinFitStored(I, k) ==
    [ convergence |-> Ev(I).kinFit_convergence[k], chi2 |-> Ev(I).kinFit_chi2[k],
      probability |-> Prob(Ev(I).kinFit_chi2[k]), mass |-> Ev(I).kinFit_m[k] ]

\* the outputs of the solver for the arguments a, with the p-value of its chi2
KinFitSolved(a) ==
    [ convergence |-> FitOf(a).convergence, chi2 |-> FitOf(a).chi2,
      probability |-> Prob(FitOf(a).chi2), mass |-> FitOf(a).mass ]

\* C21: a GetKinFitResults call that returns on an object with b-jet pair
\* returns, when the side table holds the key of the pair, the entry at the
\* first position of the key, and the solver is not invoked for the object;
\* otherwise the solver has been invoked exactly once for the object, with
\* the momenta of its legs, of its two b-jets and of its MET and with the two
\* energy resolutions, and the call returns the solver's outputs; the
\* p-value is the one of the chi2 returned.
C21_KinFitHitOrSolver ==
    [][ \A t \in Threads, i \in 1..ninst :
          (th'[t] # th[t] /\ Returned(t, "GetKinFitResults", i)') =>
              LET I == inst'[i]
                  k == KinFitFind(I)
                  r == th'[t].ret.val
                  calls == SelectSeq(fitCalls', LAMBDA c : c.inst = i)
              IN /\ r.probability = Prob(r.chi2)
                 /\ k # 0 => (r = KinFitStored(I, k) /\ calls = << >>)
                 /\ k = 0 =>
                       /\ Len(calls) = 1
                       /\ r = KinFitSolved(calls[1].args)
                       /\ fitCalls' # fitCalls =>
                             (FitCallsOf(i) = << >> /\ calls[1].args = KinFitArgs(I)) ]_vars

\* no call is under way on object i
NoCallOn(i) == \A t \in Threads : th[t].inst = i => th[t].pc \notin {"in", "fill"}

\* C23: a GetKinFitResults whose computation fails part-way stores nothing:
\* outside a call the fit slot of an object is empty or holds a result read
\* from the side table or obtained from the solver, and no call returns a
\* default-constructed result.
C23_NoPartialKinFit ==
    \A i \in 1..ninst :
        /\ (NoCallOn(i) /\ Filled(inst[i], "kinfit_results")) =>
              inst[i].kinfit_results[1] # DefaultFitResults
        /\ \A t \in Threads :
              Returned(t, "GetKinFitResults", i) => th[t].ret.val # DefaultFitResults

(***************************************************************************)
(* The fallback of SelectSignalJets (SpecSel).                             *)
(***************************************************************************)
\* the VBF pair found by the scan of the call, before the fallback
ScannedVBF(t) == AfterVBFScan(SelEv(t), SelOrd(t)).selectedVBFjetPair

\* C26: in every selection returned no position of the jet array belongs to
\* both the b-jet pair and the VBF pair; a jet of the VBF pair found by the
\* scan is the second b-jet only in a selection whose VBF pair is cleared.
C26_PairsDisjoint ==
    \A t \in Threads :
        SelCall(t) =>
            LET sel == SelRet(t)
            IN /\ \A n \in 0..(Len(SelEv(t).jets_p4) - 1) :
                     ~(/\ n \in {sel.selectedBjetPair.first, sel.selectedBjetPair.second}
                       /\ n \in {sel.selectedVBFjetPair.first, sel.selectedVBFjetPair.second})
               /\ (/\ sel.selectedBjetPair.second # UndefinedJetIndex
                   /\ sel.selectedBjetPair.second
                          \in {ScannedVBF(t).first, ScannedVBF(t).second}) =>
                     sel.selectedVBFjetPair = UndefinedJetPair

\* the second b-jet of the selection returned was a jet of the VBF pair the
\* scan had found
C26_Witness ==
    \E t \in Threads :
        /\ SelCall(t)
        /\ HasBjetPairN(SelRet(t), Len(SelEv(t).jets_p4))
        /\ SelRet(t).selectedBjetPair.second \in {ScannedVBF(t).first, ScannedVBF(t).second}
        /\ SelRet(t).selectedVBFjetPair = UndefinedJetPair

\* the ranked b-tag list of the call has two entries or more and its second
\* entry fails the medium working point
SecondFailsMedium(t) ==
    /\ Len(BjetsOrdered(SelEv(t), SelOrd(t))) >= 2
    /\ ~BTagPass(SelEv(t), SelOrd(t), BjetsOrdered(SelEv(t), SelOrd(t))[2].index)

\* the places of the ranked b-tag list, the first one left out, whose jet is
\* not in the VBF pair found by the scan
FreePlaces(t) ==
    { k \in 2..Len(BjetsOrdered(SelEv(t), SelOrd(t))) :
        BjetsOrdered(SelEv(t), SelOrd(t))[k].index
            \notin {ScannedVBF(t).first, ScannedVBF(t).second} }

\* C27: when the ranked b-tag list L_b has two entries or more and L_b[1]
\* fails the medium working point: if an entry of L_b other than the first
\* b-jet is not in the VBF pair found by the scan, the second b-jet is such
\* an entry that none of the others outranks and the VBF pair is the one
\* found by the scan; otherwise the VBF pair is cleared and the second b-jet
\* is L_b[1].
C27_FallbackChoice ==
    \A t \in Threads :
        (SelCall(t) /\ SecondFailsMedium(t)) =>
            LET L_b == BjetsOrdered(SelEv(t), SelOrd(t))
                sel == SelRet(t)
            IN /\ sel.selectedBjetPair.first = L_b[1].index
               /\ IF FreePlaces(t) # {}
                  THEN /\ \E k \in FreePlaces(t) :
                             /\ sel.selectedBjetPair.second = L_b[k].index
                             /\ \A h \in FreePlaces(t) : ~CompareJets(L_b[h], L_b[k])
                       /\ sel.selectedVBFjetPair = ScannedVBF(t)
                  ELSE /\ sel.selectedVBFjetPair = UndefinedJetPair
                       /\ sel.selectedBjetPair.second = L_b[2].index

\* L_b[1] fails the medium working point and is in the VBF pair found by the
\* scan; the second b-jet is a lower entry of L_b and the VBF pair is kept
C27_Witness ==
    \E t \in Threads :
        /\ SelCall(t)
        /\ SecondFailsMedium(t)
        /\ 2 \notin FreePlaces(t)
        /\ FreePlaces(t) # {}
        /\ SelRet(t).selectedBjetPair.second
              # BjetsOrdered(SelEv(t), SelOrd(t))[2].index
        /\ HasVBFPairN(SelRet(t), Len(SelEv(t).jets_p4))

(***************************************************************************)
(* MT2 (Spec).                                                             *)
(***************************************************************************)
\* C28: the value GetMT2 returns on an object is Calculate_MT2 of the
\* momenta of its two legs, of the two daughters of its Higgs candidate and
\* of the MET GetMET returns on that object; on an object returned by
\* ApplyShift this is the shifted MET, not the PF MET of the record.
C28_MT2FromCurrentMET ==
    \A t \in Threads, i \in 1..ninst :
        Returned(t, "GetMT2", i) =>
            /\ Filled(inst[i], "leg1") /\ Filled(inst[i], "leg2")
            /\ Filled(inst[i], "higgs_bb")
            /\ th[t].ret.val =
                  Calculate_MT2(inst[i].leg1[1].p4, inst[i].leg2[1].p4,
                                inst[i].higgs_bb[1].first.p4.pt,
                                inst[i].higgs_bb[1].second.p4.pt,
                                CurrentMET(inst[i]))

(***************************************************************************)
(* GetHT (SpecRank).                                                       *)
(***************************************************************************)
\* the summed pt of the jets of I from position n on that pass the noise
\* veto and the thresholds of GetHT and are not in excl
RECURSIVE HTFrom(_, _, _, _)
HTFrom(I, eta_cut, excl, n) ==
    IF n >= Len(I.jets[1]) THEN 0
    ELSE (IF /\ PassEcalNoiceVetoJets(At(I.jets[1], n).p4, I.period, At(Ev(I).jets_pu_id, n))
             /\ At(I.jets[1], n).p4.pt > other_jets_min_pt
             /\ Abs(At(I.jets[1], n).p4.eta) < eta_cut
             /\ n \notin excl
          THEN At(I.jets[1], n).p4.pt ELSE 0)
         + HTFrom(I, eta_cut, excl, n + 1)

\* C29: GetHT(includeHbbJets, apply_eta_cut) returns the summed pt of the
\* jets within its thresholds; with includeHbbJets = false exactly the two
\* jets of the b-jet pair are left out, and on an object without b-jet pair
\* no jet is left out, so that GetHT(false, e) = GetHT(true, e).
C29_HTLeavesOutPair ==
    \A t \in Threads, i \in 1..ninst :
        Returned(t, "GetHT", i) =>
            LET I == inst[i]
                eta_cut == IF th[t].arg.b THEN other_jets_max_eta ELSE wide_eta_cut
                excl == IF ~th[t].arg.a /\ HasBjetPair(I)
                        THEN {I.selected_signal_jets.selectedBjetPair.first,
                              I.selected_signal_jets.selectedBjetPair.second}
                        ELSE {}
            IN /\ th[t].ret.val = HTFrom(I, eta_cut, excl, 0)
               /\ (~th[t].arg.a /\ ~HasBjetPair(I)) =>
                     th[t].ret.val = GetHT(I, TRUE, th[t].arg.b).val


(***************************************************************************)
(* The fat-jet match (SpecFat).                                            *)
(***************************************************************************)
\* a and b are the places of two subjets no other subjet of the fat jet exceeds in pt
TwoLeading(subJets, a, b) ==
    /\ a # b
    /\ \A c \in (1..Len(subJets)) \ {a, b} :
          subJets[c].pt <= subJets[a].pt /\ subJets[c].pt <= subJets[b].pt

\* fat jet k of the record of I qualifies for the cuts, with a and b as leading subjets
Qualifies(I, k, a, b, mass_cut, deltaR_subjet_cut) ==
    LET subJets == Ev(I).fatJets_subJets[k]
        d1 == I.higgs_bb[1].first.p4
        d2 == I.higgs_bb[1].second.p4
        near(n, d) == Abs(subJets[n].eta - d.eta) < deltaR_subjet_cut
    IN /\ Ev(I).fatJets_m[k] >= mass_cut
       /\ Len(subJets) >= 2
       /\ TwoLeading(subJets, a, b)
       /\ (near(a, d1) /\ near(b, d2)) \/ (near(a, d2) /\ near(b, d1))

\* fat jet k qualifies for some choice of its two leading subjets
MayQualify(I, k, mass_cut, deltaR_subjet_cut) ==
    \E a, b \in 1..Len(Ev(I).fatJets_subJets[k]) :
        Qualifies(I, k, a, b, mass_cut, deltaR_subjet_cut)

\* fat jet k fails for some choice of its two leading subjets (or has none)
MayFail(I, k, mass_cut, deltaR_subjet_cut) ==
    \/ Ev(I).fatJets_m[k] < mass_cut
    \/ Len(Ev(I).fatJets_subJets[k]) < 2
    \/ \E a, b \in 1..Len(Ev(I).fatJets_subJets[k]) :
          /\ TwoLeading(Ev(I).fatJets_subJets[k], a, b)
          /\ ~Qualifies(I, k, a, b, mass_cut, deltaR_subjet_cut)

\* thread t has returned from SelectFatJet
ReturnedFat(t) == th[t].pc = "done" /\ th[t].op = "SelectFatJet"

\* what a returned result of thread t must be: "no fat jet" when the object has no
\* b-jet pair or no fat jet qualifies, else the first fat jet that qualifies
FatJetResult(t) ==
    LET I == inst[th[t].inst]
        mass_cut == th[t].arg.a
        cut == th[t].arg.b
        r == th[t].ret
        n == GetNFatJets(I)
    IN /\ ~HasBjetPair(I) => r = Ok(NoFatJet)
       /\ (HasBjetPair(I) /\ r = Ok(NoFatJet)) =>
             \A k \in 1..n : MayFail(I, k, mass_cut, cut)
       /\ (r.kind = "ok" /\ r.val # NoFatJet) =>
             /\ HasBjetPair(I)
             /\ r.val.index \in 0..(n - 1)
             /\ r.val = [index |-> r.val.index, m |-> Ev(I).fatJets_m[r.val.index + 1],
                         subJets |-> Ev(I).fatJets_subJets[r.val.index + 1]]
             /\ MayQualify(I, r.val.index + 1, mass_cut, cut)
             /\ \A k \in 1..r.val.index : MayFail(I, k, mass_cut, cut)

\* the call of thread t failed because the Higgs-bb candidate cannot be built: there
\* is a b-jet pair, the jets lack a position of the pair, and a fat jet passes the
\* mass cut with two subjets or more
FatJetFailure(t) ==
    LET I == inst[th[t].inst]
    IN /\ HasBjetPair(I)
       /\ ~PairInJets(I, I.selected_signal_jets.selectedBjetPair)
       /\ \E k \in 1..GetNFatJets(I) : /\ Ev(I).fatJets_m[k] >= th[t].arg.a
                                         /\ Len(Ev(I).fatJets_subJets[k]) >= 2

\* C30 (as amended): SelectFatJet returns "no fat jet", without an error, when the
\* object has no b-jet pair or no fat jet qualifies; otherwise it returns the first
\* fat jet in record order whose soft-drop mass is not below the mass cut, which has
\* two subjets or more, and whose two leading-pt subjets are each within the delta-R
\* cut of a different daughter of the Higgs-bb candidate, under either assignment.
\* The call fails, with an out-of-range error, only when the jets were replaced by a
\* collection without the pair's positions and a fat jet is to be matched.
C30_SelectFatJet ==
    \A t \in Threads : ReturnedFat(t) =>
        /\ FatJetResult(t)
        /\ th[t].ret.kind = "error" => FatJetFailure(t)

\* C30 (as stated): every call of SelectFatJet returns, "no fat jet" or the first fat
\* jet that qualifies, and never an error
C30_AlwaysReturns ==
    \A t \in Threads : ReturnedFat(t) =>
        /\ th[t].ret.kind = "ok"
        /\ FatJetResult(t)

\* the second fat jet of the record is returned: its subjets are not in pt order
\* in the record, and the first fat jet passed the mass cut with two subjets
C30_Witness ==
    \E t \in Threads :
        /\ ReturnedFat(t)
        /\ th[t].ret.kind = "ok"
        /\ th[t].ret.val.index = 1
        /\ th[t].ret.val.subJets[1].pt < th[t].ret.val.subJets[2].pt
        /\ Ev(inst[th[t].inst]).fatJets_m[1] >= th[t].arg.a
        /\ Len(Ev(inst[th[t].inst]).fatJets_subJets[1]) >= 2

(***************************************************************************)
(* The locks of the objects (SpecLock).                                    *)
(***************************************************************************)
\* thread u is inside a critical section of object i
InCritical(u, i) == th[u].pc = "fill" /\ th[u].inst = i

SlotOps == {"GetHiggsBB", "SetMvaScore", "GetMvaScore"}

\* C24: every step in which a call of a thread reads or writes a slot of an object
\* is taken while no other thread holds the lock of that object: the thread holds
\* the lock already, or the lock is free and the call takes it.
C24_LockDiscipline ==
    [][\A t \in Threads :
          (th'[t] # th[t] /\ th'[t].pc \in {"fill", "done"} /\ th'[t].op \in SlotOps) =>
              owner[inst[th'[t].inst].mutex] \in {0, t}]_vars

InRecordOrder(js, I) ==
    /\ Len(js) = Len(Ev(I).jets_p4)
    /\ \A k \in 1..Len(js) : js[k].index = k - 1 /\ js[k].p4 = Ev(I).jets_p4[k]

\* the step is the return of thread t from op on object i
Returns(t, op, i) ==
    /\ th'[t] # th[t]
    /\ th'[t].pc = "done"
    /\ th'[t].op = op
    /\ th'[t].inst = i

\* C31: SetJets(c) leaves c as the jets of the object; GetJets returns the stored
\* jets when there are any, so that it returns c after SetJets(c), also when it was
\* never called before, and otherwise one jet per jet of the record, in record
\* order; stored jets are replaced by SetJets only, never built anew from the record.
C31_SetThenGet ==
    [][\A i \in 1..ninst :
          /\ \A t \in Threads :
                /\ Returns(t, "SetJets", i) => inst'[i].jets = << th'[t].arg.a >>
                /\ Returns(t, "GetJets", i) =>
                      /\ th'[t].ret.kind = "ok"
                      /\ inst'[i].jets = << th'[t].ret.val >>
                      /\ IF Filled(inst[i], "jets")
                         THEN th'[t].ret.val = inst[i].jets[1]
                         ELSE InRecordOrder(th'[t].ret.val, inst[i])
          /\ (Filled(inst[i], "jets") /\ inst'[i].jets # inst[i].jets) =>
                \E t \in Threads : Returns(t, "SetJets", i)]_vars

\* GetJets has returned jets that are not those of the record, on an object that
\* never built its jets from the record
C31_Witness ==
    \E t \in Threads, i \in 1..ninst :
        /\ Returned(t, "GetJets", i)
        /\ ~InRecordOrder(th[t].ret.val, inst[i])
        /\ ncomp[i]["jets"] = 0
        /\ \A k \in 1..Len(corrCalls) : corrCalls[k].result # i

(***************************************************************************)
(* SelectJets and GetHT keep nothing (SpecRank).                           *)
(***************************************************************************)
\* the summed pt GetHT would give for object I if its jets were those of the record
HTOfRecord(I, includeHbbJets, apply_eta_cut) ==
    HTFrom([I EXCEPT !.jets = << [k \in 1..Len(Ev(I).jets_p4) |->
                                    [index |-> k - 1, p4 |-> Ev(I).jets_p4[k]]] >>],
           IF apply_eta_cut THEN other_jets_max_eta ELSE wide_eta_cut,
           IF includeHbbJets THEN {}
           ELSE {I.selected_signal_jets.selectedBjetPair.first,
                 I.selected_signal_jets.selectedBjetPair.second},
           0)

\* C32: a call of SelectJets or GetHT changes nothing of the object but the jets,
\* and these only when there were none, to the jets of the record; what it returns
\* is computed from the jets the object holds now: the jets SelectJets returns are
\* entries of that collection, and GetHT is the sum over that collection.
C32_NothingStored ==
    [][\A t \in Threads, i \in 1..ninst :
          (Returns(t, "SelectJets", i) \/ Returns(t, "GetHT", i)) =>
              /\ \A j \in Inst \ {i} : inst'[j] = inst[j]
              /\ inst'[i] = [inst[i] EXCEPT !.jets = inst'[i].jets]
              /\ IF Filled(inst[i], "jets") THEN inst'[i].jets = inst[i].jets
                 ELSE InRecordOrder(inst'[i].jets[1], inst[i])
              /\ (th'[t].op = "SelectJets" /\ th'[t].ret.kind = "ok") =>
                    \A h \in 1..Len(th'[t].ret.val) :
                        /\ InRange(inst'[i].jets[1], th'[t].ret.val[h].index)
                        /\ th'[t].ret.val[h] = At(inst'[i].jets[1], th'[t].ret.val[h].index)
              /\ (th'[t].op = "GetHT" /\ th'[t].ret.kind = "ok") =>
                    th'[t].ret.val =
                        HTFrom(inst'[i],
                               IF th'[t].arg.b THEN other_jets_max_eta ELSE wide_eta_cut,
                               IF th'[t].arg.a THEN {}
                               ELSE {inst[i].selected_signal_jets.selectedBjetPair.first,
                                     inst[i].selected_signal_jets.selectedBjetPair.second},
                               0)]_vars

\* GetHT has returned, after SetJets, a sum that is not the one of the record's jets
C32_Witness ==
    \E t \in Threads, i \in 1..ninst :
        /\ Returned(t, "GetHT", i)
        /\ ~InRecordOrder(inst[i].jets[1], inst[i])
        /\ th[t].ret.val # HTOfRecord(inst[i], th[t].arg.a, th[t].arg.b)

(***************************************************************************)
(* The count of b-jet candidates (SpecSel).                                *)
(***************************************************************************)
\* C33: n_bjets of the selection SelectSignalJets returns is the number of jets of
\* the record that pass the noise veto, the pile-up id bit and the pt and eta
\* thresholds of the b-tagger, above the medium working point or not; the scan for
\* the VBF pair and the fallback leave it as it is.
C33_CountsCandidates ==
    \A t \in Threads :
        SelCall(t) =>
            SelRet(t).n_bjets = Cardinality(PassingJets(SelEv(t), bjet_pt_cut, bjet_eta_cut))

\* a selection made by the fallback, with a VBF pair, that counts a candidate below
\* the medium working point
C33_Witness ==
    \E t \in Threads :
        /\ SelCall(t)
        /\ SecondFailsMedium(t)
        /\ HasVBFPairN(SelRet(t), Len(SelEv(t).jets_p4))
        /\ HasBjetPairN(SelRet(t), Len(SelEv(t).jets_p4))
        /\ SelRet(t).n_bjets >= 3

(***************************************************************************)
(* The counter and the tuple of TupleStore (SpecStore).                    *)
(***************************************************************************)
\* the places of the completed calls of an operation
CallsOf(op) == {k \in 1..Len(tupleCalls) : tupleCalls[k].op = op}

\* the releases that did not throw
Released == {k \in CallsOf("ReleaseEventTuple") : tupleCalls[k].ret.kind = "ok"}

\* the releases that brought the counter back to zero
LastReleases == {k \in Released : tupleCalls[k].found = 1}

\* the tuple was created and not dropped
Exists(id) == id \in DOMAIN tuples /\ \A k \in 1..Len(tuples[id]) : tuples[id][k] # "reset"

\* C34: whatever the interleaving of the GetTuple and ReleaseEventTuple calls
\* of the producers, the counter is the number of GetTuple calls minus the
\* number of releases that succeeded and is never negative, the shared tuple
\* exists exactly when the counter is positive, and two GetTuple calls with no
\* release to zero between them return the same tuple
C34_CounterAndTuple ==
    /\ tuple_counter = Cardinality(CallsOf("GetTuple")) - Cardinality(Released)
    /\ tuple_counter >= 0
    /\ (tuple_counter > 0) <=> (eventTuple_ptr # NoTuple)
    /\ eventTuple_ptr # NoTuple => Exists(eventTuple_ptr)
    /\ \A id \in DOMAIN tuples : Exists(id) => id = eventTuple_ptr
    /\ \A j, k \in CallsOf("GetTuple") :
          (j < k /\ \A r \in LastReleases : ~(j < r /\ r < k))
             => /\ tupleCalls[j].ret = tupleCalls[k].ret
                /\ tupleCalls[j].ret.kind = "ok"
                /\ tupleCalls[j].ret.val # NoTuple

\* two GetTuple calls have returned the tuple, which the second producer still
\* holds after the first producer has released it
C34_Witness ==
    /\ tuple_counter = 1
    /\ Cardinality(CallsOf("GetTuple")) = 2
    /\ Cardinality(Released) = 1
    /\ \A k \in CallsOf("GetTuple") : tupleCalls[k].ret = Ok(eventTuple_ptr)
    /\ producer[1].pc = "idle" /\ producer[1].op = "ReleaseEventTuple"
    /\ producer[1].ret = Ok(0)
    /\ producer[2].pc = "idle" /\ producer[2].op = "GetTuple"
    /\ producer[2].ret = Ok(eventTuple_ptr)
    /\ eventTuple_ptr # NoTuple


(***************************************************************************)
(* The life of a shared tuple (SpecStore).                                 *)
(***************************************************************************)
\* in this step producer p leaves its call of the operation
StoreStep(p, op) ==
    /\ producer[p].pc = "in"
    /\ producer[p].op = op
    /\ producer'[p].pc = "idle"

\* in this step a GetTuple finds the counter at zero
FirstGet == \E p \in Producers : StoreStep(p, "GetTuple") /\ tuple_counter = 0

\* in this step a ReleaseEventTuple brings the counter from one to zero
LastRelease == \E p \in Producers : StoreStep(p, "ReleaseEventTuple") /\ tuple_counter = 1

\* C35: a tuple is created exactly by a GetTuple that finds the counter at
\* zero, and it is a new one, also after an earlier tuple was dropped; the
\* tuple is written once and then dropped exactly by the ReleaseEventTuple that
\* brings the counter to zero, never while the counter stays positive; nothing
\* else is ever done to a tuple and the shared pointer changes in no other step
C35_Lifecycle ==
    [][/\ Len(tuples') >= Len(tuples)
       /\ (Len(tuples') # Len(tuples)) <=> FirstGet
       /\ FirstGet =>
             /\ Len(tuples') = Len(tuples) + 1
             /\ tuples'[Len(tuples')] = << >>
             /\ eventTuple_ptr = NoTuple
             /\ eventTuple_ptr' = Len(tuples')
             /\ \E p \in Producers : /\ StoreStep(p, "GetTuple")
                                     /\ producer'[p].ret = Ok(Len(tuples'))
       /\ \A id \in DOMAIN tuples :
             /\ (tuples'[id] # tuples[id]) <=> (LastRelease /\ id = eventTuple_ptr)
             /\ tuples'[id] # tuples[id] =>
                   /\ tuples[id] = << >>
                   /\ tuples'[id] = << "Write", "reset" >>
                   /\ tuple_counter' = 0
                   /\ eventTuple_ptr' = NoTuple
       /\ eventTuple_ptr' # eventTuple_ptr => (FirstGet \/ LastRelease)]_vars

\* a tuple held by two was released twice, written and dropped at the second
\* release only, and the GetTuple that followed has created the second tuple
C35_Witness ==
    /\ Len(tuples) = 2
    /\ tuples[1] = << "Write", "reset" >>
    /\ tuples[2] = << >>
    /\ eventTuple_ptr = 2
    /\ tuple_counter = 1
    /\ \E j \in Released, k \in LastReleases : j < k /\ tupleCalls[j].found = 2
    /\ tupleCalls[Len(tupleCalls)] = [op |-> "GetTuple", found |-> 0, ret |-> Ok(2)]

(***************************************************************************)
(* A release that nothing is held for (SpecStore).                         *)
(***************************************************************************)
\* C36: ReleaseEventTuple called while the counter is zero fails with the
\* error "Tuple Counter equals zero." and changes nothing: the counter stays
\* zero and does not become negative, no tuple is written or dropped and the
\* shared pointer is left as it was
C36_ReleaseAtZero ==
    [][\A p \in Producers :
          (StoreStep(p, "ReleaseEventTuple") /\ tuple_counter = 0) =>
             /\ producer'[p].ret = Err("Tuple Counter equals zero.")
             /\ tuple_counter' = 0
             /\ tuple_counter' >= 0
             /\ eventTuple_ptr' = eventTuple_ptr
             /\ tuples' = tuples]_vars

\* a release has failed after the only tuple was written and dropped, and the
\* tuple is as the last successful release left it
C36_Witness ==
    /\ Len(tupleCalls) >= 3
    /\ tupleCalls[Len(tupleCalls)] =
          [op |-> "ReleaseEventTuple", found |-> 0, ret |-> Err("Tuple Counter equals zero.")]
    /\ LastReleases # {}
    /\ tuples = << << "Write", "reset" >> >>
    /\ tuple_counter = 0
    /\ eventTuple_ptr = NoTuple

====
